---- MODULE Spec2Model ----
(***************************************************************************)
(* Japan Law MCP: Kanji numeral conversion, citation parser and citation   *)
(* formatter.                                                              *)
(*                                                                         *)
(* A string is a sequence of characters.  An ASCII character is the        *)
(* one-character TLA+ string; a Japanese character is written by its       *)
(* romanised name (the module is kept in ASCII):                           *)
(*   "dai" U+7B2C, "jou" U+6761, "kou" U+9805, "gou" U+53F7 (the wrapper   *)
(*   markers of article, paragraph and item), "touten" U+3001 (the         *)
(*   ideographic comma), "juu"/"hyaku"/"sen" (10/100/1000), the digits     *)
(*   "maru" "rei" "ichi" "ichi_daiji" "ni" "ni_daiji" "san" "san_daiji"    *)
(*   "yon" "go" "roku" "nana" "hachi" "kyuu", and "hou" U+6CD5, "min"      *)
(*   U+6C11 for the characters of a law name.                              *)
(* An optional (possibly undefined) value is <<>> or <<v>>.                *)
(***************************************************************************)
EXTENDS Integers, Sequences, FiniteSets, TLC

VARIABLES
    pc,         \* position of the caller: which call comes next
    num,        \* numeral pipeline: the integer handed to arabicToKanji
    kanji,      \* numeral pipeline: the string arabicToKanji returned
    arabic,     \* numeral pipeline: the number kanjiToArabic returned
    src,        \* citation pipeline: the pieces the caller wrote the citation from
    citation,   \* citation pipeline: the string handed to parseCitation
    parsed,     \* citation pipeline: the ParsedCitation returned
    format,     \* citation pipeline: the CitationFormat handed to formatCitation
    formatted,  \* citation pipeline: the string formatCitation returned
    reparsed,   \* citation pipeline: parseCitation of the formatted string
    db,         \* validator: the documents and provisions of the database
    doc,        \* validator: the row the document lookup returned
    lookups,    \* validator: the lookups issued so far, with their outcomes
    validation, \* validator: the ValidationResult returned
    lastIndex,  \* parser: lastIndex of the five module-level grammar regexes
    callers,    \* library: the calls made so far, with caller, argument and result
    pool,       \* ingestion: the concurrency pool of main
    retry,      \* ingestion: one run of ingestOneWithRetry
    limiter,    \* fetcher: the clock, lastRequestTime and the calls of rateLimitedFetch
    query,      \* get_provision: the statute queried and what was returned
    tool        \* server: the CallTool request and its response

validatorVars == <<db, doc, lookups, validation>>

libraryVars ==
    <<pc, num, kanji, arabic, src, citation, parsed, format, formatted, reparsed,
      db, doc, lookups, validation>>

serviceVars == <<lastIndex, callers, pool, retry, limiter, query, tool>>

vars ==
    <<pc, num, kanji, arabic, src, citation, parsed, format, formatted, reparsed,
      db, doc, lookups, validation,
      lastIndex, callers, pool, retry, limiter, query, tool>>

undefined == <<>>
Some(v) == <<v>>

---------------------------------------------------------------------------
(* Characters *)

DAI == "dai"
JOU == "jou"
KOU == "kou"
GOU == "gou"
TOUTEN == "touten"

AsciiDigits == {"0", "1", "2", "3", "4", "5", "6", "7", "8", "9"}

\* the value of an ASCII digit
DigitValue(c) ==
    CASE c = "0" -> 0 [] c = "1" -> 1 [] c = "2" -> 2 [] c = "3" -> 3
      [] c = "4" -> 4 [] c = "5" -> 5 [] c = "6" -> 6 [] c = "7" -> 7
      [] c = "8" -> 8 [] c = "9" -> 9

DigitChar(d) ==
    CASE d = 0 -> "0" [] d = 1 -> "1" [] d = 2 -> "2" [] d = 3 -> "3"
      [] d = 4 -> "4" [] d = 5 -> "5" [] d = 6 -> "6" [] d = 7 -> "7"
      [] d = 8 -> "8" [] d = 9 -> "9"

\* what \s matches, among the characters the model writes
WhiteSpace == {" ", "\t", "\n"}
\* what . does not match
LineTerminators == {"\n"}

RECURSIVE TrimLeft(_)
TrimLeft(s) ==
    IF s # <<>> /\ Head(s) \in WhiteSpace THEN TrimLeft(Tail(s)) ELSE s

RECURSIVE TrimRight(_)
TrimRight(s) ==
    IF s # <<>> /\ s[Len(s)] \in WhiteSpace
    THEN TrimRight(SubSeq(s, 1, Len(s) - 1)) ELSE s

\* String.prototype.trim
Trim(s) == TrimRight(TrimLeft(s))

RECURSIVE NatToString(_)
NatToString(n) ==
    IF n < 10 THEN <<DigitChar(n)>>
    ELSE NatToString(n \div 10) \o <<DigitChar(n % 10)>>

\* String(n) of an integer
String(n) == IF n < 0 THEN <<"-">> \o NatToString(-n) ELSE NatToString(n)

RECURSIVE DigitsValue(_, _)
\* the base-10 value of a run of ASCII digits, acc being the value so far
DigitsValue(s, acc) ==
    IF s = <<>> THEN acc
    ELSE DigitsValue(Tail(s), 10 * acc + DigitValue(Head(s)))

RECURSIVE DigitPrefix(_)
\* the longest prefix of s made of ASCII digits
DigitPrefix(s) ==
    IF s # <<>> /\ Head(s) \in AsciiDigits
    THEN <<Head(s)>> \o DigitPrefix(Tail(s)) ELSE <<>>

\* parseInt(s, 10): leading white space is skipped, a sign is read, then the
\* longest run of digits; undefined stands for NaN
parseInt(s) ==
    LET t == TrimLeft(s)
        neg == t # <<>> /\ Head(t) = "-"
        u == IF t # <<>> /\ Head(t) \in {"-", "+"} THEN Tail(t) ELSE t
        d == DigitPrefix(u)
    IN  IF d = <<>> THEN undefined
        ELSE Some(IF neg THEN -DigitsValue(d, 0) ELSE DigitsValue(d, 0))

---------------------------------------------------------------------------
(* kanji-numerals: KANJI_DIGITS, KANJI_MULTIPLIERS, ARABIC_TO_KANJI_DIGITS *)

KanjiDigitChars ==
    {"maru", "rei", "ichi", "ichi_daiji", "ni", "ni_daiji", "san",
     "san_daiji", "yon", "go", "roku", "nana", "hachi", "kyuu"}

KANJI_DIGITS(c) ==
    CASE c \in {"maru", "rei"} -> 0
      [] c \in {"ichi", "ichi_daiji"} -> 1
      [] c \in {"ni", "ni_daiji"} -> 2
      [] c \in {"san", "san_daiji"} -> 3
      [] c = "yon" -> 4
      [] c = "go" -> 5
      [] c = "roku" -> 6
      [] c = "nana" -> 7
      [] c = "hachi" -> 8
      [] c = "kyuu" -> 9

KanjiMultiplierChars == {"juu", "hyaku", "sen"}

KANJI_MULTIPLIERS(c) ==
    CASE c = "juu" -> 10 [] c = "hyaku" -> 100 [] c = "sen" -> 1000

\* ARABIC_TO_KANJI_DIGITS[d] spliced into a string: a key outside 0..9 reads
\* undefined, which += writes as the text "undefined"
ARABIC_TO_KANJI_DIGITS(d) ==
    CASE d = 0 -> <<"maru">> [] d = 1 -> <<"ichi">> [] d = 2 -> <<"ni">>
      [] d = 3 -> <<"san">> [] d = 4 -> <<"yon">> [] d = 5 -> <<"go">>
      [] d = 6 -> <<"roku">> [] d = 7 -> <<"nana">> [] d = 8 -> <<"hachi">>
      [] d = 9 -> <<"kyuu">>
      [] OTHER -> <<"u", "n", "d", "e", "f", "i", "n", "e", "d">>

RECURSIVE KanjiLoop(_, _, _)
\* the for-loop of kanjiToArabic over the characters left, with its two
\* accumulators; returns result + current
KanjiLoop(s, result, current) ==
    IF s = <<>> THEN result + current
    ELSE LET char == Head(s) IN
         IF char \in KanjiDigitChars
         THEN KanjiLoop(Tail(s), result, KANJI_DIGITS(char))
         ELSE IF char \in KanjiMultiplierChars
         THEN KanjiLoop(Tail(s),
                        result + (IF current = 0 THEN 1 ELSE current)
                                   * KANJI_MULTIPLIERS(char),
                        0)
         ELSE KanjiLoop(Tail(s), result, current)

RECURSIVE PositionalValue(_, _)
\* parseInt of the digit values joined: the base-10 positional number
PositionalValue(s, acc) ==
    IF s = <<>> THEN acc
    ELSE PositionalValue(Tail(s), 10 * acc + KANJI_DIGITS(Head(s)))

\* kanjiToArabic with a multiplier that lacks a coefficient adding nothing
\* (the implicit coefficient 1 of the source left out)
kanjiToArabicNoImplicitOne(s) ==
    LET RECURSIVE L(_, _, _)
        L(t, r, c) ==
            IF t = <<>> THEN r + c
            ELSE IF Head(t) \in KanjiDigitChars
            THEN L(Tail(t), r, KANJI_DIGITS(Head(t)))
            ELSE IF Head(t) \in KanjiMultiplierChars
            THEN L(Tail(t), r + c * KANJI_MULTIPLIERS(Head(t)), 0)
            ELSE L(Tail(t), r, c)
    IN  IF (\A i \in 1..Len(s) : s[i] \in KanjiDigitChars) /\ Len(s) > 1
        THEN PositionalValue(s, 0)
        ELSE L(s, 0, 0)

\* kanjiToArabic without the final addition of the trailing digit
kanjiToArabicNoTrailingDigit(s) ==
    LET RECURSIVE L(_, _, _)
        L(t, r, c) ==
            IF t = <<>> THEN r
            ELSE IF Head(t) \in KanjiDigitChars
            THEN L(Tail(t), r, KANJI_DIGITS(Head(t)))
            ELSE IF Head(t) \in KanjiMultiplierChars
            THEN L(Tail(t), r + (IF c = 0 THEN 1 ELSE c)
                                  * KANJI_MULTIPLIERS(Head(t)), 0)
            ELSE L(Tail(t), r, c)
    IN  IF (\A i \in 1..Len(s) : s[i] \in KanjiDigitChars) /\ Len(s) > 1
        THEN PositionalValue(s, 0)
        ELSE IF Len(s) = 1 /\ s[1] \in KanjiDigitChars
        THEN KANJI_DIGITS(s[1])
        ELSE L(s, 0, 0)

kanjiToArabic(s) ==
    IF s = <<>> THEN 0
    ELSE IF (\A i \in 1..Len(s) : s[i] \in KanjiDigitChars) /\ Len(s) > 1
    THEN PositionalValue(s, 0)
    ELSE IF Len(s) = 1 /\ s[1] \in KanjiDigitChars
    THEN KANJI_DIGITS(s[1])
    ELSE KanjiLoop(s, 0, 0)

\* arabicToKanji with the coefficient written for every non-zero place, a
\* single thousand, hundred or ten included
arabicToKanjiExplicitOne(n) ==
    IF n < 0 THEN <<>>
    ELSE IF n <= 9 THEN ARABIC_TO_KANJI_DIGITS(n)
    ELSE LET place(c, m) ==
                 IF c > 0 THEN ARABIC_TO_KANJI_DIGITS(c) \o <<m>> ELSE <<>>
         IN  place(n \div 1000, "sen") \o place((n % 1000) \div 100, "hyaku")
               \o place((n % 100) \div 10, "juu")
               \o (IF n % 10 > 0 THEN ARABIC_TO_KANJI_DIGITS(n % 10) ELSE <<>>)

arabicToKanji(n) ==
    IF n < 0 THEN <<>>
    ELSE IF n = 0 THEN <<"maru">>
    ELSE IF n <= 9 THEN ARABIC_TO_KANJI_DIGITS(n)
    ELSE LET thousands == n \div 1000
             r1 == IF thousands > 0 THEN n % 1000 ELSE n
             hundreds == r1 \div 100
             r2 == IF hundreds > 0 THEN r1 % 100 ELSE r1
             tens == r2 \div 10
             r3 == IF tens > 0 THEN r2 % 10 ELSE r2
         IN  (IF thousands > 0
              THEN (IF thousands > 1 THEN ARABIC_TO_KANJI_DIGITS(thousands)
                    ELSE <<>>) \o <<"sen">>
              ELSE <<>>)
          \o (IF hundreds > 0
              THEN (IF hundreds > 1 THEN ARABIC_TO_KANJI_DIGITS(hundreds)
                    ELSE <<>>) \o <<"hyaku">>
              ELSE <<>>)
          \o (IF tens > 0
              THEN (IF tens > 1 THEN ARABIC_TO_KANJI_DIGITS(tens) ELSE <<>>)
                   \o <<"juu">>
              ELSE <<>>)
          \o (IF r3 > 0 THEN ARABIC_TO_KANJI_DIGITS(r3) ELSE <<>>)

---------------------------------------------------------------------------
(* Regular expressions.  A pattern is written as its syntax tree and run   *)
(* by a backtracking matcher that returns every way the pattern matches    *)
(* from a position, in the priority order of ECMAScript's matcher (greedy  *)
(* quantifiers try more first, lazy ones less first, alternatives left to  *)
(* right); String.prototype.match takes the first.                         *)

LowerLetters ==
    <<"a", "b", "c", "d", "e", "f", "g", "h", "i", "j", "k", "l", "m",
      "n", "o", "p", "q", "r", "s", "t", "u", "v", "w", "x", "y", "z">>
UpperLetters ==
    <<"A", "B", "C", "D", "E", "F", "G", "H", "I", "J", "K", "L", "M",
      "N", "O", "P", "Q", "R", "S", "T", "U", "V", "W", "X", "Y", "Z">>

\* the characters equal to c when case is ignored (the i flag)
CaseVariants(c) ==
    {c} \cup {LowerLetters[k] : k \in {j \in 1..26 : UpperLetters[j] = c}}
        \cup {UpperLetters[k] : k \in {j \in 1..26 : LowerLetters[j] = c}}

Cls(S) == [t |-> "cls", set |-> S]          \* [...] or one literal character
NotCls(S) == [t |-> "ncls", set |-> S]      \* a character outside S
Lit(s) == [t |-> "lit", s |-> s, i |-> FALSE]  \* literal text
LitI(s) == [t |-> "lit", s |-> s, i |-> TRUE]  \* literal text under the i flag
Cat(xs) == [t |-> "cat", xs |-> xs]         \* r1 r2 ... rn
Alt(xs) == [t |-> "alt", xs |-> xs]         \* r1|r2|...|rn
Opt(r) == [t |-> "opt", r |-> r]            \* r?
Star(r) == [t |-> "star", r |-> r]          \* r*, r a character class
Plus(r) == [t |-> "plus", r |-> r]          \* r+, r a character class
PlusLazy(r) == [t |-> "pluslazy", r |-> r]  \* r+?, r a character class
Grp(n, r) == [t |-> "grp", n |-> n, r |-> r] \* (r), the n-th capture
Bol == [t |-> "bol"]                        \* ^
Eol == [t |-> "eol"]                        \* $

Ch(c) == Cls({c})
Dot == NotCls(LineTerminators)              \* .
Space == Cls(WhiteSpace)                    \* \s
Digit == Cls(AsciiDigits)                   \* \d

\* whether the character class r has the character c
InClass(r, c) == IF r.t = "cls" THEN c \in r.set ELSE c \notin r.set

\* how many characters of s from position i on are in the class r
Run(r, s, i) ==
    LET stops == {j \in i..(Len(s) + 1) : j > Len(s) \/ ~InClass(r, s[j])}
    IN  (CHOOSE j \in stops : \A k \in stops : j <= k) - i

\* whether the text lit stands in s at position i
LitAt(lit, ci, s, i) ==
    /\ i + Len(lit) - 1 <= Len(s)
    /\ \A k \in 1..Len(lit) :
          IF ci THEN s[i + k - 1] \in CaseVariants(lit[k])
          ELSE s[i + k - 1] = lit[k]

RECURSIVE Match(_, _, _)
RECURSIVE MatchAll(_, _, _, _, _)
RECURSIVE MatchCat(_, _, _, _)
RECURSIVE MatchAlt(_, _, _, _)

\* the matches of r from each of the states sts[lo..hi], in order
MatchAll(r, s, sts, lo, hi) ==
    IF lo > hi THEN <<>>
    ELSE IF lo = hi THEN Match(r, s, sts[lo])
    ELSE LET mid == (lo + hi) \div 2
         IN  MatchAll(r, s, sts, lo, mid) \o MatchAll(r, s, sts, mid + 1, hi)

MatchCat(xs, k, s, sts) ==
    IF k > Len(xs) \/ sts = <<>> THEN sts
    ELSE MatchCat(xs, k + 1, s, MatchAll(xs[k], s, sts, 1, Len(sts)))

MatchAlt(xs, k, s, st) ==
    IF k > Len(xs) THEN <<>>
    ELSE Match(xs[k], s, st) \o MatchAlt(xs, k + 1, s, st)

\* a matcher state: i the position of the next character, c the captures
Match(r, s, st) ==
    CASE r.t \in {"cls", "ncls"} ->
            IF st.i <= Len(s) /\ InClass(r, s[st.i])
            THEN <<[st EXCEPT !.i = @ + 1]>> ELSE <<>>
      [] r.t = "lit" ->
            IF LitAt(r.s, r.i, s, st.i)
            THEN <<[st EXCEPT !.i = @ + Len(r.s)]>> ELSE <<>>
      [] r.t = "cat" -> MatchCat(r.xs, 1, s, <<st>>)
      [] r.t = "alt" -> MatchAlt(r.xs, 1, s, st)
      [] r.t = "opt" -> Match(r.r, s, st) \o <<st>>
      [] r.t = "star" ->        \* greedy: the longest run first, down to none
            LET n == Run(r.r, s, st.i)
            IN  [k \in 1..(n + 1) |-> [st EXCEPT !.i = @ + n + 1 - k]]
      [] r.t = "plus" ->        \* greedy: the longest run first, down to one
            LET n == Run(r.r, s, st.i)
            IN  [k \in 1..n |-> [st EXCEPT !.i = @ + n + 1 - k]]
      [] r.t = "pluslazy" ->    \* lazy: one character first, up to the run
            LET n == Run(r.r, s, st.i)
            IN  [k \in 1..n |-> [st EXCEPT !.i = @ + k]]
      [] r.t = "grp" ->
            LET inner == Match(r.r, s, st)
            IN  [k \in 1..Len(inner) |->
                    [inner[k] EXCEPT
                        !.c[r.n] = Some(SubSeq(s, st.i, inner[k].i - 1))]]
      [] r.t = "bol" -> IF st.i = 1 THEN <<st>> ELSE <<>>
      [] r.t = "eol" -> IF st.i = Len(s) + 1 THEN <<st>> ELSE <<>>

\* whether r can match at the start of the text only: it begins with ^
Anchored(r) == r.t = "cat" /\ r.xs # <<>> /\ r.xs[1].t = "bol"

RECURSIVE SearchFrom(_, _, _, _, _)
\* the first match of r in s starting at a position in k..last: the
\* captures (c[n] undefined when the n-th group took no part), or no match
SearchFrom(r, ngroups, s, k, last) ==
    IF k > last THEN [found |-> FALSE]
    ELSE LET ms == Match(r, s, [i |-> k, c |-> [n \in 1..ngroups |-> undefined]])
         IN  IF ms # <<>>
             THEN [found |-> TRUE, c |-> ms[1].c,
                   all |-> SubSeq(s, k, ms[1].i - 1)]
             ELSE SearchFrom(r, ngroups, s, k + 1, last)

\* s.match(r) for a pattern r without the g flag: the match at the least
\* start position (a pattern that begins with ^ matches at the first only)
StrMatch(s, r, ngroups) ==
    SearchFrom(r, ngroups, s, 1, IF Anchored(r) THEN 1 ELSE Len(s) + 1)

\* r.test(s)
Test(r, s) == StrMatch(s, r, 0).found

---------------------------------------------------------------------------
(* kanji-numerals: the wrapper helpers *)

AllDigits == Cat(<<Bol, Plus(Digit), Eol>>)                   \* /^\d+$/
WrapperPrefix(marker) ==                                      \* /^dai(.+?)marker/
    Cat(<<Bol, Ch(DAI), Grp(1, PlusLazy(Dot)), Ch(marker)>>)

\* the body shared by parseArticleNumber, parseParagraphNumber and
\* parseItemNumber, which differ in the closing marker only
parseWrappedNumber(ref, marker) ==
    LET trimmed == Trim(ref)
        m == StrMatch(trimmed, WrapperPrefix(marker), 1)
        inner == m.c[1][1]
        innerNum == kanjiToArabic(inner)
        arabicNum == kanjiToArabic(trimmed)
    IN  IF m.found
        THEN IF Test(AllDigits, inner) THEN inner
             ELSE IF innerNum > 0 THEN String(innerNum) ELSE inner
        ELSE IF Test(AllDigits, trimmed) THEN trimmed
        ELSE IF arabicNum > 0 THEN String(arabicNum) ELSE trimmed

parseArticleNumber(ref) == parseWrappedNumber(ref, JOU)
parseParagraphNumber(ref) == parseWrappedNumber(ref, KOU)
parseItemNumber(ref) == parseWrappedNumber(ref, GOU)

\* a variant of formatArticleKanji: the number is wrapped as it was given
formatArticleKanjiRaw(articleNum) == <<DAI>> \o articleNum \o <<JOU>>

formatArticleKanji(articleNum) ==
    LET n == parseInt(articleNum)
    IN  IF n = undefined \/ n[1] <= 0 THEN <<DAI>> \o articleNum \o <<JOU>>
        ELSE <<DAI>> \o arabicToKanji(n[1]) \o <<JOU>>

---------------------------------------------------------------------------
(* citation/parser: the five grammars *)

Wrapped(marker) == Cat(<<Ch(DAI), PlusLazy(Dot), Ch(marker)>>)
ReferenceBlock ==               \* dai.+?jou(?:dai.+?kou)?(?:dai.+?gou)?
    Cat(<<Wrapped(JOU), Opt(Wrapped(KOU)), Opt(Wrapped(GOU))>>)
Separator == Cls({",", TOUTEN})                               \* [,touten]
OptDot == Opt(Ch("."))                                        \* \.?

JAPANESE_CITATION ==
    Cat(<<Bol, Grp(1, ReferenceBlock), Star(Space), Opt(Separator),
          Star(Space), Grp(2, Plus(Dot)), Eol>>)

\* ENGLISH_FULL with the keyword Article only, Art and Art. left out
ENGLISH_FULL_ArticleOnly ==
    Cat(<<Bol,
          LitI(<<"A", "r", "t", "i", "c", "l", "e">>),
          Plus(Space), Grp(1, Plus(Digit)),
          Opt(Cat(<<Star(Space), Opt(Ch(",")), Star(Space),
                    Alt(<<LitI(<<"P", "a", "r", "a", "g", "r", "a", "p", "h">>),
                          Cat(<<LitI(<<"P", "a", "r", "a">>), OptDot>>),
                          Cat(<<LitI(<<"P", "a", "r">>), OptDot>>)>>),
                    Plus(Space), Grp(2, Plus(Digit))>>)),
          Opt(Cat(<<Star(Space), Opt(Ch(",")), Star(Space),
                    LitI(<<"I", "t", "e", "m">>),
                    Plus(Space), Grp(3, Plus(Digit))>>)),
          Star(Space), Separator, Star(Space),
          Grp(4, PlusLazy(Dot)),
          Opt(Cat(<<Star(Space), Ch("("), LitI(<<"A", "c", "t">>), Plus(Space),
                    LitI(<<"N", "o">>), Ch("."), Star(Space),
                    Grp(5, Plus(Digit)), Plus(Space), LitI(<<"o", "f">>),
                    Plus(Space), Grp(6, Cat(<<Digit, Digit, Digit, Digit>>)),
                    Ch(")")>>)),
          Eol>>)

ENGLISH_FULL ==
    Cat(<<Bol,
          Alt(<<LitI(<<"A", "r", "t", "i", "c", "l", "e">>),
                Cat(<<LitI(<<"A", "r", "t">>), OptDot>>)>>),
          Plus(Space), Grp(1, Plus(Digit)),
          Opt(Cat(<<Star(Space), Opt(Ch(",")), Star(Space),
                    Alt(<<LitI(<<"P", "a", "r", "a", "g", "r", "a", "p", "h">>),
                          Cat(<<LitI(<<"P", "a", "r", "a">>), OptDot>>),
                          Cat(<<LitI(<<"P", "a", "r">>), OptDot>>)>>),
                    Plus(Space), Grp(2, Plus(Digit))>>)),
          Opt(Cat(<<Star(Space), Opt(Ch(",")), Star(Space),
                    LitI(<<"I", "t", "e", "m">>),
                    Plus(Space), Grp(3, Plus(Digit))>>)),
          Star(Space), Separator, Star(Space),
          Grp(4, PlusLazy(Dot)),
          Opt(Cat(<<Star(Space), Ch("("), LitI(<<"A", "c", "t">>), Plus(Space),
                    LitI(<<"N", "o">>), Ch("."), Star(Space),
                    Grp(5, Plus(Digit)), Plus(Space), LitI(<<"o", "f">>),
                    Plus(Space), Grp(6, Cat(<<Digit, Digit, Digit, Digit>>)),
                    Ch(")")>>)),
          Eol>>)

SHORT_CITATION ==
    Cat(<<Bol,
          Alt(<<Cat(<<LitI(<<"A", "r", "t">>), OptDot>>),
                LitI(<<"A", "r", "t", "i", "c", "l", "e">>)>>),
          Plus(Space), Grp(1, Plus(Digit)),
          Opt(Cat(<<Star(Space), Opt(Ch(",")), Star(Space),
                    Alt(<<Cat(<<LitI(<<"P", "a", "r", "a">>), OptDot>>),
                          LitI(<<"P", "a", "r", "a", "g", "r", "a", "p", "h">>)>>),
                    Plus(Space), Grp(2, Plus(Digit))>>)),
          Star(Space), Separator, Star(Space),
          Grp(3, PlusLazy(Dot)), Eol>>)

ID_PARTS ==                                       \* /act-(\d+)-(\d{4})/
    Cat(<<Lit(<<"a", "c", "t", "-">>), Grp(1, Plus(Digit)), Ch("-"),
          Grp(2, Cat(<<Digit, Digit, Digit, Digit>>))>>)

ID_BASED ==
    Cat(<<Bol,
          Grp(1, Cat(<<LitI(<<"a", "c", "t">>), Ch("-"), Plus(Digit), Ch("-"),
                       Digit, Digit, Digit, Digit>>)),
          Star(Space), Separator, Star(Space),
          Alt(<<Cat(<<LitI(<<"a", "r", "t">>), OptDot>>),
                LitI(<<"a", "r", "t", "i", "c", "l", "e">>)>>),
          Star(Space), OptDot, Star(Space), Grp(2, Plus(Digit)),
          Opt(Cat(<<Star(Space), Separator, Star(Space),
                    Alt(<<Cat(<<LitI(<<"p", "a", "r", "a">>), OptDot>>),
                          LitI(<<"p", "a", "r", "a", "g", "r", "a", "p", "h">>)>>),
                    Star(Space), OptDot, Star(Space), Grp(3, Plus(Digit))>>)),
          Eol>>)

TRAILING_JAPANESE ==
    Cat(<<Bol, Grp(1, PlusLazy(Dot)), Plus(Space), Grp(2, ReferenceBlock),
          Eol>>)

ArticlePart == Cat(<<Ch(DAI), Grp(1, PlusLazy(Dot)), Ch(JOU)>>)  \* /dai(.+?)jou/
ParagraphPart == Cat(<<Ch(JOU), Grp(1, Wrapped(KOU))>>)          \* /jou(dai.+?kou)/
ItemPart == Cat(<<Opt(Ch(KOU)), Grp(1, Wrapped(GOU))>>)          \* /kou?(dai.+?gou)/

\* a ParsedCitation with every optional field undefined
Citation(valid, type) ==
    [valid |-> valid, type |-> type, title |-> undefined,
     title_en |-> undefined, law_number |-> undefined, year |-> undefined,
     act_number |-> undefined, article |-> undefined,
     paragraph |-> undefined, item |-> undefined, error |-> undefined]

\* x || undefined, for a capture x
OrUndefined(cap) == IF cap = undefined \/ cap[1] = <<>> THEN undefined ELSE cap

\* a variant of IntOrUndefined: parseInt(x, 10) || undefined, which drops 0
IntOrUndefinedFalsyZero(cap) ==
    IF cap = undefined \/ cap[1] = <<>> \/ parseInt(cap[1]) = Some(0)
    THEN undefined ELSE parseInt(cap[1])

\* x ? parseInt(x, 10) : undefined, for a capture x
IntOrUndefined(cap) ==
    IF cap = undefined \/ cap[1] = <<>> THEN undefined ELSE parseInt(cap[1])

parseJapaneseRef(articleRef, lawName) ==
    LET articleMatch == StrMatch(articleRef, ArticlePart, 1)
        paraMatch == StrMatch(articleRef, ParagraphPart, 1)
        itemMatch == StrMatch(articleRef, ItemPart, 1)
    IN  [Citation(TRUE, "statute") EXCEPT
            !.title = Some(Trim(lawName)),
            !.article = IF articleMatch.found
                        THEN Some(parseArticleNumber(articleRef))
                        ELSE undefined,
            !.paragraph = IF paraMatch.found
                          THEN Some(parseParagraphNumber(paraMatch.c[1][1]))
                          ELSE undefined,
            !.item = IF itemMatch.found
                     THEN Some(parseItemNumber(itemMatch.c[1][1]))
                     ELSE undefined]

\* the text before the input in the error of an unparseable citation
ErrorPrefix ==
    <<"C", "o", "u", "l", "d", " ", "n", "o", "t", " ", "p", "a", "r", "s",
      "e", " ", "J", "a", "p", "a", "n", "e", "s", "e", " ", "l", "e", "g",
      "a", "l", " ", "c", "i", "t", "a", "t", "i", "o", "n", ":", " ", "\"">>

\* the five branches of parseCitation, each on the match of its grammar
JapaneseBranch(m) == parseJapaneseRef(m.c[1][1], m.c[2][1])
\* a variant of the trailing branch: the captures in the order of the leading one
TrailingBranchSwapped(m) == parseJapaneseRef(m.c[1][1], m.c[2][1])
TrailingBranch(m) == parseJapaneseRef(m.c[2][1], m.c[1][1])
EnglishFullBranch(m) ==
    [Citation(TRUE, "statute") EXCEPT
        !.title_en = Some(Trim(m.c[4][1])),
        !.article = m.c[1],
        !.paragraph = OrUndefined(m.c[2]),
        !.item = OrUndefined(m.c[3]),
        !.act_number = IntOrUndefined(m.c[5]),
        !.year = IntOrUndefined(m.c[6])]
ShortBranch(m) ==
    [Citation(TRUE, "statute") EXCEPT
        !.title_en = Some(Trim(m.c[3][1])),
        !.article = m.c[1],
        !.paragraph = OrUndefined(m.c[2])]
\* the identifier-based branch with the title left unset
IdBranchWithoutTitle(m) ==
    [Citation(TRUE, "statute") EXCEPT
        !.article = m.c[2], !.paragraph = OrUndefined(m.c[3])]
IdBranch(m) ==
    LET idParts == StrMatch(m.c[1][1], ID_PARTS, 2)
    IN  [Citation(TRUE, "statute") EXCEPT
            !.title = m.c[1],
            !.article = m.c[2],
            !.paragraph = OrUndefined(m.c[3]),
            !.act_number = IF idParts.found THEN parseInt(idParts.c[1][1])
                           ELSE undefined,
            !.year = IF idParts.found THEN parseInt(idParts.c[2][1])
                     ELSE undefined]
\* a variant of the failure result: the error does not name the input
UnparseableWithoutInput(trimmed) ==
    [Citation(FALSE, "unknown") EXCEPT
        !.error = Some(<<"I", "n", "v", "a", "l", "i", "d">>)]
Unparseable(trimmed) ==
    [Citation(FALSE, "unknown") EXCEPT
        !.error = Some(ErrorPrefix \o trimmed \o <<"\"">>)]

\* a variant of parseCitation: the trailing native grammar is tried first
parseCitationTrailingFirst(text) ==
    LET trimmed == Trim(text)
        m1 == StrMatch(trimmed, JAPANESE_CITATION, 2)
        m2 == StrMatch(trimmed, TRAILING_JAPANESE, 2)
        m3 == StrMatch(trimmed, ENGLISH_FULL, 6)
        m4 == StrMatch(trimmed, SHORT_CITATION, 3)
        m5 == StrMatch(trimmed, ID_BASED, 3)
    IN  IF m2.found THEN TrailingBranch(m2)
        ELSE IF m1.found THEN JapaneseBranch(m1)
        ELSE IF m3.found THEN EnglishFullBranch(m3)
        ELSE IF m4.found THEN ShortBranch(m4)
        ELSE IF m5.found THEN IdBranch(m5)
        ELSE Unparseable(trimmed)

parseCitation(text) ==
    LET trimmed == Trim(text)
        m1 == StrMatch(trimmed, JAPANESE_CITATION, 2)
        m2 == StrMatch(trimmed, TRAILING_JAPANESE, 2)
        m3 == StrMatch(trimmed, ENGLISH_FULL, 6)
        m4 == StrMatch(trimmed, SHORT_CITATION, 3)
        m5 == StrMatch(trimmed, ID_BASED, 3)
    IN  IF m1.found THEN JapaneseBranch(m1)
        ELSE IF m2.found THEN TrailingBranch(m2)
        ELSE IF m3.found THEN EnglishFullBranch(m3)
        ELSE IF m4.found THEN ShortBranch(m4)
        ELSE IF m5.found THEN IdBranch(m5)
        ELSE Unparseable(trimmed)

---------------------------------------------------------------------------
(* citation/formatter *)

\* truthiness of an optional string and of an optional number
TruthyStr(o) == o # undefined /\ o[1] # <<>>
TruthyNum(o) == o # undefined /\ o[1] # 0

\* a ?? b ?? '' over optional strings
Coalesce(a, b) == IF a # undefined THEN a[1] ELSE IF b # undefined THEN b[1] ELSE <<>>

\* buildPinpoint with the item written only inside a paragraph
buildPinpointNested(p, isJapanese) ==
    LET ref == IF p.article # undefined THEN p.article[1] ELSE <<>>
    IN  IF isJapanese \/ ~TruthyStr(p.paragraph) THEN ref
        ELSE ref \o <<"(">> \o p.paragraph[1] \o <<")">>
             \o (IF TruthyStr(p.item)
                 THEN <<"(">> \o p.item[1] \o <<")">> ELSE <<>>)

buildPinpoint(p, isJapanese) ==
    LET ref == IF p.article # undefined THEN p.article[1] ELSE <<>>
    IN  IF isJapanese THEN ref
        ELSE ref
             \o (IF TruthyStr(p.paragraph)
                 THEN <<"(">> \o p.paragraph[1] \o <<")">> ELSE <<>>)
             \o (IF TruthyStr(p.item)
                 THEN <<"(">> \o p.item[1] \o <<")">> ELSE <<>>)

\* dai + (isNaN(parseInt(x)) ? x : arabicToKanji(parseInt(x))) + marker
KanjiWrapped(x, marker) ==
    LET n == parseInt(x)
    IN  <<DAI>> \o (IF n = undefined THEN x ELSE arabicToKanji(n[1]))
        \o <<marker>>

\* the guard of formatCitation with the test of valid left out
UnformattableIfNoArticle(p) == ~TruthyStr(p.article)

\* !parsed.valid || !parsed.article
Unformattable(p) == ~p.valid \/ ~TruthyStr(p.article)

formatCitation(p, fmt) ==
    IF Unformattable(p) THEN <<>>
    ELSE LET pinpoint == buildPinpoint(p, fmt = "japanese")
             name == Coalesce(p.title_en, p.title)
             actInfo ==
                 IF TruthyNum(p.act_number) /\ TruthyNum(p.year)
                 THEN <<" ", "(", "A", "c", "t", " ", "N", "o", ".", " ">>
                      \o String(p.act_number[1]) \o <<" ", "o", "f", " ">>
                      \o String(p.year[1]) \o <<")">>
                 ELSE <<>>
         IN  CASE fmt = "full" ->
                    Trim(<<"A", "r", "t", "i", "c", "l", "e", " ">> \o pinpoint
                         \o <<",", " ">> \o name \o actInfo)
               [] fmt = "short" ->
                    Trim(<<"A", "r", "t", ".", " ">> \o pinpoint
                         \o <<",", " ">> \o name)
               [] fmt = "pinpoint" -> <<"A", "r", "t", ".", " ">> \o pinpoint
               [] fmt = "japanese" ->
                    Trim(formatArticleKanji(p.article[1])
                         \o (IF TruthyStr(p.paragraph)
                             THEN KanjiWrapped(p.paragraph[1], KOU) ELSE <<>>)
                         \o (IF TruthyStr(p.item)
                             THEN KanjiWrapped(p.item[1], GOU) ELSE <<>>)
                         \o <<" ">> \o Coalesce(p.title, p.title_en))
               [] OTHER ->
                    Trim(<<"A", "r", "t", "i", "c", "l", "e", " ">> \o pinpoint
                         \o <<",", " ">> \o name)

---------------------------------------------------------------------------
(* The callers' inputs.  A numeral is written with its value v and its     *)
(* text s; a citation is written from pieces, kept in src, so that what    *)
(* parseCitation returns can be compared with what was written.            *)

MaxNum == 10000         \* numerals 0..MaxNum are converted and cited
MaxPinpoint == 2        \* paragraphs and items 1..MaxPinpoint are cited

KanjiNumeral(v) == [v |-> v, s |-> arabicToKanji(v)]
ArabicNumeral(v) == [v |-> v, s |-> String(v)]
Numerals(vs) == {KanjiNumeral(v) : v \in vs} \cup {ArabicNumeral(v) : v \in vs}

MaxNumeralLen == 3      \* numeral strings of 0..MaxNumeralLen characters are read

\* the characters kanjiToArabic gives a value to
NumeralChars == KanjiDigitChars \cup KanjiMultiplierChars

\* every string of at most MaxNumeralLen digit and multiplier characters
NumeralStrings ==
    UNION {[1..n -> NumeralChars] : n \in 0..MaxNumeralLen}

\* the digits a coefficient or a final digit is written with
CoefficientChars ==
    {"ichi", "ni", "san", "yon", "go", "roku", "nana", "hachi", "kyuu"}

\* one place of a numeral in multiplicative-additive form: absent, the bare
\* multiplier, or the multiplier after one coefficient digit
PlaceForms(m) ==
    {[v |-> 0, s |-> <<>>], [v |-> KANJI_MULTIPLIERS(m), s |-> <<m>>]}
    \cup {[v |-> KANJI_DIGITS(c) * KANJI_MULTIPLIERS(m), s |-> <<c, m>>] :
             c \in CoefficientChars}

\* the final digit of such a numeral: absent, or one digit
FinalForms ==
    {[v |-> 0, s |-> <<>>]}
    \cup {[v |-> KANJI_DIGITS(c), s |-> <<c>>] : c \in CoefficientChars}

\* the numerals in multiplicative-additive form, with the value written
AdditiveNumerals ==
    {[kind |-> "numeral", v |-> t.v + h.v + j.v + f.v,
      s |-> t.s \o h.s \o j.s \o f.s] :
        t \in PlaceForms("sen"), h \in PlaceForms("hyaku"),
        j \in PlaceForms("juu"), f \in FinalForms}

MaxArticle == 120       \* article numbers -1..MaxArticle are wrapped

\* what follows the digits of an article number that is no plain number
ArticleSuffixes == {<<"a", "b", "c">>, <<"no", "2">>, <<" ">>}

\* the article numbers handed to formatArticleKanji as strings
ArticleInputs ==
    {[kind |-> "article", text |-> String(n)] : n \in -1..MaxArticle}
    \cup {[kind |-> "article", text |-> String(n) \o x] :
             n \in 0..MaxArticle, x \in ArticleSuffixes}
    \cup {[kind |-> "article", text |-> t] :
             t \in {<<>>, <<"a", "b", "c">>, <<"9", "9", "9", "9">>,
                    <<"0", "1", "7">>, <<" ", "1", "7">>, <<"+", "1", "7">>,
                    <<"juu", "nana">>}}

\* law names without white space, separator or wrapper character
PlainNames == {<<"min", "hou">>, <<"roku", "hou">>, <<"A", "P", "P", "I">>}
\* English titles
EnglishNames == {<<"A", "P", "P", "I">>, <<"C", "i", "v", "i", "l", " ", "C", "o", "d", "e">>}
\* a title that ends in a native reference block
MixedNames == {<<"min", "hou", " ", DAI, "ichi", JOU>>}

\* dai A jou [dai P kou] [dai I gou]
Block(r) ==
    <<DAI>> \o r.A.s \o <<JOU>>
    \o (IF r.P # undefined THEN <<DAI>> \o r.P[1].s \o <<KOU>> ELSE <<>>)
    \o (IF r.I # undefined THEN <<DAI>> \o r.I[1].s \o <<GOU>> ELSE <<>>)

Join(o, before, after) == IF o = undefined THEN <<>> ELSE before \o o[1] \o after

\* the citation text written from the pieces
Render(r) ==
    CASE r.kind = "leading" -> Block(r) \o r.sep \o r.name
      [] r.kind = "trailing" -> r.name \o r.sep \o Block(r)
      [] r.kind = "english" ->
            r.kw \o <<" ">> \o r.n
            \o Join(r.p, <<",", " ">> \o r.pkw \o <<" ">>, <<>>)
            \o Join(r.i, <<",", " ">> \o r.ikw \o <<" ">>, <<>>)
            \o <<",", " ">> \o r.name
            \o (IF r.act # undefined
                THEN <<" ", "(">> \o r.act[1].kw \o <<" ">> \o r.act[1].k
                     \o r.act[1].of \o r.act[1].y \o <<")">>
                ELSE <<>>)
      [] r.kind = "id" ->
            r.id \o <<"-">> \o r.k \o <<"-">> \o r.y \o <<",", " ">> \o r.kw
            \o <<" ">> \o r.n \o Join(r.p, <<",", " ">> \o r.pkw \o <<" ">>, <<>>)
      [] r.kind = "raw" -> r.text

\* the articles cited in the mixed inputs
CitedArticles == {1, 10, 17, 2003}

\* an optional paragraph or item: absent, or a numeral in Kanji
OptKanjiPinpoint ==
    {undefined} \cup {Some(KanjiNumeral(v)) : v \in 1..MaxPinpoint}

\* an optional paragraph or item: absent, or a numeral in Arabic digits
OptArabicPinpoint ==
    {undefined} \cup {Some(ArabicNumeral(v)) : v \in 1..MaxPinpoint}

NativeRefs ==
    {[A |-> a, P |-> p, I |-> i] :
        a \in {KanjiNumeral(v) : v \in CitedArticles},
        p \in OptKanjiPinpoint, i \in OptKanjiPinpoint}
    \cup
    {[A |-> a, P |-> p, I |-> i] :
        a \in {ArabicNumeral(v) : v \in CitedArticles},
        p \in OptArabicPinpoint, i \in OptArabicPinpoint}

LeadingSources ==
    {[kind |-> "leading", A |-> r.A, P |-> r.P, I |-> r.I, sep |-> sep,
      name |-> name] :
        r \in NativeRefs, sep \in {<<" ">>, <<TOUTEN>>}, name \in PlainNames}

TrailingSources ==
    {[kind |-> "trailing", A |-> r.A, P |-> r.P, I |-> r.I, sep |-> <<" ">>,
      name |-> name] : r \in NativeRefs, name \in PlainNames}

\* the keywords of the English forms, in three letter cases
Keywords ==
    {[kw |-> <<"A", "r", "t", "i", "c", "l", "e">>, pkw |-> <<"P", "a", "r", "a", "g", "r", "a", "p", "h">>, ikw |-> <<"I", "t", "e", "m">>,
      akw |-> <<"A", "c", "t", " ", "N", "o", ".">>, of |-> <<" ", "o", "f", " ">>],
     [kw |-> <<"A", "r", "t", ".">>, pkw |-> <<"P", "a", "r", "a", ".">>, ikw |-> <<"i", "t", "e", "m">>,
      akw |-> <<"a", "c", "t", " ", "n", "o", ".">>, of |-> <<" ", "o", "f", " ">>],
     [kw |-> <<"A", "R", "T", "I", "C", "L", "E">>, pkw |-> <<"P", "A", "R", "A", "G", "R", "A", "P", "H">>, ikw |-> <<"I", "T", "E", "M">>,
      akw |-> <<"A", "C", "T", " ", "N", "O", ".">>, of |-> <<" ", "O", "F", " ">>]}

OptDigits == {undefined} \cup {Some(String(v)) : v \in 1..MaxPinpoint}

EnglishSources ==
    {[kind |-> "english", kw |-> w.kw, n |-> n, pkw |-> w.pkw, p |-> p,
      ikw |-> w.ikw, i |-> i, name |-> name,
      act |-> IF a = undefined THEN undefined
              ELSE Some([kw |-> w.akw, of |-> w.of, k |-> a[1][1], y |-> a[1][2]])] :
        w \in Keywords, n \in {<<"1">>, <<"1", "7">>}, p \in OptDigits, i \in OptDigits,
        name \in EnglishNames \cup MixedNames,
        a \in {undefined, Some(<<<<"5", "7">>, <<"2", "0", "0", "3">>>>), Some(<<<<"0">>, <<"0", "0", "0", "0">>>>)}}

IdSources ==
    {[kind |-> "id", id |-> id, k |-> k, y |-> <<"2", "0", "0", "3">>, kw |-> w[1], n |-> <<"1", "7">>,
      pkw |-> w[2], p |-> p] :
        id \in {<<"a", "c", "t">>, <<"A", "C", "T">>, <<"A", "c", "t">>}, k \in {<<"5", "7">>, <<"0">>},
        w \in {<<<<"a", "r", "t", ".">>, <<"p", "a", "r", "a", ".">>>>, <<<<"A", "r", "t", "i", "c", "l", "e">>, <<"P", "a", "r", "a", "g", "r", "a", "p", "h">>>>},
        p \in OptDigits}

\* texts that are no citation, or that more than one grammar reads
RawSources ==
    {[kind |-> "raw", text |-> t] :
        t \in {<<>>, <<" ", " ">>, <<" ", "h", "e", "l", "l", "o", " ">>, <<"A", "r", "t", ".", " ", "1", "7">>,
               <<DAI, "juu", "nana", JOU>>,
               <<" ", DAI, "ichi", JOU, " ", "min", "hou", " ", DAI, "ni", JOU>>,
               <<"A", "r", "t", "i", "c", "l", "e", " ", "1", "7", "(", "1", ")", ",", " ", "A", "P", "P", "I">>,
               <<"a", "c", "t", "-", "5", "7", "-", "2", "0", "0", "3">> \o <<" ", DAI, "ni", JOU>>,
               <<"A", "r", "t", ".", " ", "1", ",", " ", "P", "a", "r", ".", " ", "2", ",", " ", "A", "P", "P", "I">>}}

Sources ==
    LeadingSources \cup TrailingSources \cup EnglishSources \cup IdSources
    \cup RawSources

\* the CitationFormat values, and one value outside the type
Formats == {"full", "short", "pinpoint", "japanese", "bluebook"}

\* parsed citations as a caller of formatCitation may hold them: each
\* optional field absent or populated, valid or not
CitationRecords ==
    {[kind |-> "record",
      p |-> [Citation(valid, "statute") EXCEPT
                !.title = title, !.title_en = title_en,
                !.act_number = act_number, !.year = year,
                !.article = article, !.paragraph = paragraph, !.item = item]] :
        valid \in BOOLEAN,
        title \in {undefined, Some(<<"min", "hou">>)},
        title_en \in {undefined, Some(<<"A", "P", "P", "I">>)},
        act_number \in {undefined, Some(0), Some(57)},
        year \in {undefined, Some(0), Some(2003)},
        article \in {undefined, Some(<<"1", "7">>)},
        paragraph \in {undefined, Some(<<"1">>)},
        item \in {undefined, Some(<<"2">>)}}

\* native citations of one article, for the round trip through 'japanese'
RoundTripSources ==
    {[kind |-> "leading", A |-> a, P |-> undefined, I |-> undefined,
      sep |-> <<" ">>, name |-> name] :
        a \in Numerals(1..MaxNum), name \in PlainNames}

---------------------------------------------------------------------------
(* The callers: one converts a number to Kanji and back; one parses a      *)
(* citation, formats the result and parses the formatted text again.       *)

\* the state of the scripts and of the server before they are used
IdleServices ==
    /\ lastIndex = <<0, 0, 0, 0, 0>>
    /\ callers = <<>>
    /\ pool = <<>>
    /\ retry = <<>>
    /\ limiter = <<>>
    /\ query = <<>>
    /\ tool = <<>>

IdleValidator ==
    /\ db = [documents |-> {}, provisions |-> {}]
    /\ doc = undefined
    /\ lookups = <<>>
    /\ validation = undefined

IdleNumeral == num = 0 /\ kanji = <<>> /\ arabic = 0

IdleCitation ==
    /\ src = [kind |-> "raw", text |-> <<>>]
    /\ citation = <<>>
    /\ format = "full"
    /\ parsed = undefined
    /\ formatted = <<>>
    /\ reparsed = undefined
    /\ IdleValidator

CitationInit(sources) ==
    /\ pc = "parse"
    /\ IdleNumeral
    /\ src \in sources
    /\ citation = Render(src)
    /\ format = "full"
    /\ parsed = undefined
    /\ formatted = <<>>
    /\ reparsed = undefined
    /\ IdleValidator
    /\ IdleServices

\* the state of the library while a script or the server is observed
IdleLibrary == pc = "idle" /\ IdleNumeral /\ IdleCitation

Init == CitationInit(Sources)

RoundTripInit == CitationInit(RoundTripSources)

NumeralInit ==
    /\ pc = "toKanji"
    /\ num \in -1..MaxNum
    /\ kanji = <<>>
    /\ arabic = 0
    /\ IdleCitation
    /\ IdleServices

Parse ==
    /\ pc = "parse"
    /\ parsed' = parseCitation(citation)
    /\ pc' = "format"
    /\ UNCHANGED validatorVars
    /\ UNCHANGED serviceVars
    /\ UNCHANGED <<num, kanji, arabic, src, citation, format, formatted, reparsed>>

Format(f) ==
    /\ pc = "format"
    /\ format' = f
    /\ formatted' = formatCitation(parsed, f)
    /\ pc' = "reparse"
    /\ UNCHANGED validatorVars
    /\ UNCHANGED serviceVars
    /\ UNCHANGED <<num, kanji, arabic, src, citation, parsed, reparsed>>

Reparse ==
    /\ pc = "reparse"
    /\ reparsed' = parseCitation(formatted)
    /\ pc' = "done"
    /\ UNCHANGED validatorVars
    /\ UNCHANGED serviceVars
    /\ UNCHANGED <<num, kanji, arabic, src, citation, format, parsed, formatted>>

ToKanji ==
    /\ pc = "toKanji"
    /\ kanji' = arabicToKanji(num)
    /\ pc' = "toArabic"
    /\ UNCHANGED validatorVars
    /\ UNCHANGED serviceVars
    /\ UNCHANGED <<num, arabic, src, citation, format, parsed, formatted, reparsed>>

ToArabic ==
    /\ pc = "toArabic"
    /\ arabic' = kanjiToArabic(kanji)
    /\ pc' = "done"
    /\ UNCHANGED validatorVars
    /\ UNCHANGED serviceVars
    /\ UNCHANGED <<num, kanji, src, citation, format, parsed, formatted, reparsed>>

\* one call of arabicToKanji(kanjiToArabic(kanji)), the result kept in kanji
Canonicalise(from, to) ==
    /\ pc = from
    /\ arabic' = kanjiToArabic(kanji)
    /\ kanji' = arabicToKanji(kanjiToArabic(kanji))
    /\ pc' = to
    /\ UNCHANGED validatorVars
    /\ UNCHANGED serviceVars
    /\ UNCHANGED <<num, src, citation, format, parsed, formatted, reparsed>>

\* the caller that formats a citation it holds, or the result of a parse
FormatInit ==
    /\ pc = "format"
    /\ IdleNumeral
    /\ src \in CitationRecords \cup RawSources
    /\ citation = (IF src.kind = "record" THEN <<>> ELSE Render(src))
    /\ parsed = (IF src.kind = "record" THEN src.p ELSE parseCitation(Render(src)))
    /\ format = "full"
    /\ formatted = <<>>
    /\ reparsed = undefined
    /\ IdleValidator
    /\ IdleServices

FormatNext == \E f \in Formats : Format(f)

\* one call of formatArticleKanji
Wrap ==
    /\ pc = "wrap"
    /\ formatted' = formatArticleKanji(src.text)
    /\ pc' = "done"
    /\ UNCHANGED validatorVars
    /\ UNCHANGED serviceVars
    /\ UNCHANGED <<num, kanji, arabic, src, citation, format, parsed, reparsed>>

\* the caller that wraps an article number
WrapInit ==
    /\ pc = "wrap"
    /\ IdleNumeral
    /\ src \in ArticleInputs
    /\ citation = <<>>
    /\ format = "full"
    /\ parsed = undefined
    /\ formatted = <<>>
    /\ reparsed = undefined
    /\ IdleValidator
    /\ IdleServices

WrapNext == Wrap

Next == Parse \/ (\E f \in Formats : Format(f)) \/ Reparse

\* the caller that asks for the 'japanese' style only
RoundTripNext == Parse \/ Format("japanese") \/ Reparse

\* the caller that reads a string of numeral characters
EvaluateInit ==
    /\ pc = "toArabic"
    /\ num = 0
    /\ kanji \in NumeralStrings
    /\ arabic = 0
    /\ IdleCitation
    /\ IdleServices

EvaluateNext == ToArabic

\* the caller that brings a numeral to its canonical form, twice
CanonInit ==
    /\ pc = "canon"
    /\ num = 0
    /\ src \in AdditiveNumerals
    /\ kanji = src.s
    /\ arabic = 0
    /\ citation = <<>>
    /\ format = "full"
    /\ parsed = undefined
    /\ formatted = <<>>
    /\ reparsed = undefined
    /\ IdleValidator
    /\ IdleServices

CanonNext == Canonicalise("canon", "recanon") \/ Canonicalise("recanon", "done")

NumeralNext == ToKanji \/ ToArabic

Spec == Init /\ [][Next]_vars

RoundTripSpec == RoundTripInit /\ [][RoundTripNext]_vars

NumeralSpec == NumeralInit /\ [][NumeralNext]_vars

FormatSpec == FormatInit /\ [][FormatNext]_vars

WrapSpec == WrapInit /\ [][WrapNext]_vars

EvaluateSpec == EvaluateInit /\ [][EvaluateNext]_vars

CanonSpec == CanonInit /\ [][CanonNext]_vars

---------------------------------------------------------------------------
(* The validator.  The database is a set of legal_documents rows and a     *)
(* set of legal_provisions rows; a lookup is one prepare(...).get(...),    *)
(* which returns a row, returns undefined, or throws.                      *)

RECURSIVE Like(_, _)
\* text LIKE pattern of SQLite: % is any run of characters, _ any one
\* character, and ASCII letters are compared without case
Like(text, pattern) ==
    IF pattern = <<>> THEN text = <<>>
    ELSE IF Head(pattern) = "%"
    THEN \E k \in 0..Len(text) :
            Like(SubSeq(text, k + 1, Len(text)), Tail(pattern))
    ELSE /\ text # <<>>
         /\ (Head(pattern) = "_" \/ Head(text) \in CaseVariants(Head(pattern)))
         /\ Like(Tail(text), Tail(pattern))

\* column LIKE pattern for a column that may be NULL
LikeColumn(column, pattern) == column # undefined /\ Like(column[1], pattern)

\* parsed.title ?? parsed.title_en ?? ''
searchTerm(p) == Coalesce(p.title, p.title_en)

\* the WHERE clause of the document lookup
DocumentMatches(d, term) ==
    LET pattern == <<"%">> \o term \o <<"%">>
    IN  \/ Like(d.title, pattern)
        \/ LikeColumn(d.title_en, pattern)
        \/ LikeColumn(d.short_name, pattern)
        \/ d.id = term

\* art-${parsed.article}
provisionRef(article) == <<"a", "r", "t", "-">> \o article

\* the WHERE clause of the provision lookup
ProvisionMatches(row, documentId, article) ==
    /\ row.document_id = documentId
    /\ \/ row.provision_ref = provisionRef(article)
       \/ row.section = Some(article)
       \/ Like(row.provision_ref, provisionRef(article) \o <<"%">>)

RepealedWarning ==
    <<"T", "h", "i", "s", " ", "s", "t", "a", "t", "u", "t", "e", " ", "h",
      "a", "s", " ", "b", "e", "e", "n", " ", "r", "e", "p", "e", "a", "l",
      "e", "d">>

InvalidFormatWarning ==
    <<"I", "n", "v", "a", "l", "i", "d", " ", "c", "i", "t", "a", "t", "i",
      "o", "n", " ", "f", "o", "r", "m", "a", "t">>

\* Document "${searchTerm}" not found in database
DocumentNotFoundWarning(term) ==
    <<"D", "o", "c", "u", "m", "e", "n", "t", " ", "\"">> \o term
    \o <<"\"", " ", "n", "o", "t", " ", "f", "o", "u", "n", "d", " ", "i", "n",
      " ", "d", "a", "t", "a", "b", "a", "s", "e">>

\* Article ${parsed.article} not found in ${doc.title}
ProvisionNotFoundWarning(article, title) ==
    <<"A", "r", "t", "i", "c", "l", "e", " ">> \o article
    \o <<" ", "n", "o", "t", " ", "f", "o", "u", "n", "d", " ", "i", "n", " ">> \o title

ValidationResult(p, documentExists, provisionExists, title, status, warnings) ==
    [citation |-> p, document_exists |-> documentExists,
     provision_exists |-> provisionExists, document_title |-> title,
     status |-> status, warnings |-> warnings]

\* the result for a citation that did not parse
InvalidResult(p) ==
    ValidationResult(p, FALSE, FALSE, undefined, undefined,
        <<IF p.error # undefined THEN p.error[1] ELSE InvalidFormatWarning>>)

\* the result for a document that was not found, with no warning
NotFoundResultNoWarning(p) ==
    ValidationResult(p, FALSE, FALSE, undefined, undefined, <<>>)

\* the result when the document lookup returned no row
NotFoundResult(p) ==
    ValidationResult(p, FALSE, FALSE, undefined, undefined,
        <<DocumentNotFoundWarning(searchTerm(p))>>)

\* a repeal warning for every document that is not in force
IsNotInForce(d) == d.status # "in_force"

\* doc.status === 'repealed'
IsRepealed(d) == d.status = "repealed"

\* the result when the document lookup returned the row d; looked says
\* whether the provision lookup was made and found what it returned
FoundResult(p, d, looked, found) ==
    ValidationResult(p, TRUE, looked /\ found, Some(d.title), Some(d.status),
        (IF IsRepealed(d) THEN <<RepealedWarning>> ELSE <<>>)
        \o (IF looked /\ ~found
            THEN <<ProvisionNotFoundWarning(p.article[1], d.title)>>
            ELSE <<>>))

\* the validator looks the document up whatever the parse returned
LookupAlways(p) == TRUE

\* the validator goes on to the document lookup: parsed.valid
LookupWanted(p) == p.valid

Statuses == {"in_force", "amended", "repealed"}

CivilCodeId == <<"m", "i", "n", "p", "o">>
PersonalInformationActId ==
    <<"a", "c", "t", "-", "5", "7", "-", "2", "0", "0", "3">>
EnforcementActId == <<"s", "e", "k", "o">>

\* the Civil Code, with a Japanese and an English title
CivilCode(status) ==
    [id |-> CivilCodeId, title |-> <<"min", "hou">>,
     title_en |-> Some(<<"C", "i", "v", "i", "l", " ", "C", "o", "d", "e">>),
     short_name |-> undefined, status |-> status]

\* the act known as APPI, found by its short name or its id
PersonalInformationAct(status) ==
    [id |-> PersonalInformationActId, title |-> <<"ko", "jin", "hou">>,
     title_en |-> undefined, short_name |-> Some(<<"a", "p", "p", "i">>),
     status |-> status]

\* an act whose title contains the title of the Civil Code
EnforcementAct ==
    [id |-> EnforcementActId, title |-> <<"min", "hou", "se", "kou", "hou">>,
     title_en |-> undefined, short_name |-> undefined, status |-> "in_force"]

\* the provision row of article n of a document
ArticleRow(documentId, n) ==
    [document_id |-> documentId, provision_ref |-> provisionRef(String(n)),
     section |-> Some(String(n))]

\* a provision row found by its section only
SectionRow(documentId, n) ==
    [document_id |-> documentId, provision_ref |-> <<"s">> \o String(n),
     section |-> Some(String(n))]

\* a provision row without section
BareRow(documentId, n) ==
    [document_id |-> documentId, provision_ref |-> provisionRef(String(n)),
     section |-> undefined]

\* the articles the documents of the database may have
StoredArticles == {1, 10, 17, 170}

\* a table part: the document absent, or present with some of its rows
CivilCodeParts ==
    {[documents |-> {}, provisions |-> {}]}
    \cup {[documents |-> {CivilCode(st)},
           provisions |-> {ArticleRow(CivilCodeId, n) : n \in ns}] :
             st \in Statuses, ns \in SUBSET StoredArticles}

PersonalInformationActParts ==
    {[documents |-> {}, provisions |-> {}]}
    \cup {[documents |-> {PersonalInformationAct(st)}, provisions |-> rows] :
             st \in {"in_force", "repealed"},
             rows \in SUBSET {SectionRow(PersonalInformationActId, 17),
                              BareRow(PersonalInformationActId, 170)}}

EnforcementActParts ==
    {[documents |-> {}, provisions |-> {}],
     [documents |-> {EnforcementAct},
      provisions |-> {ArticleRow(EnforcementActId, 1)}]}

Databases ==
    {[documents |-> c.documents \cup a.documents \cup e.documents,
      provisions |-> c.provisions \cup a.provisions \cup e.provisions] :
        c \in CivilCodeParts, a \in PersonalInformationActParts,
        e \in EnforcementActParts}

\* the citations handed to validateCitation
ValidatedSources ==
    {[kind |-> "raw", text |-> t] :
        t \in {<<DAI, "ichi", JOU, " ", "min", "hou">>,
               <<DAI, "juu", "nana", JOU, " ", "min", "hou">>,
               <<"A", "r", "t", ".", " ", "1", "7", ",", " ", "A", "P", "P", "I">>,
               PersonalInformationActId
                   \o <<",", " ", "a", "r", "t", ".", " ", "1", "7">>,
               <<DAI, "ichi", JOU, " ", "kei", "hou">>,
               <<" ", "h", "e", "l", "l", "o", " ">>}}

ValidateInit ==
    /\ IdleServices
    /\ pc = "validate"
    /\ IdleNumeral
    /\ src \in ValidatedSources
    /\ citation = Render(src)
    /\ format = "full"
    /\ parsed = undefined
    /\ formatted = <<>>
    /\ reparsed = undefined
    /\ db \in Databases
    /\ doc = undefined
    /\ lookups = <<>>
    /\ validation = undefined

Lookup(kind, outcome) == [kind |-> kind, outcome |-> outcome]

\* validateCitation up to the document lookup: the parse, and the return
\* for a citation that did not parse
ValidateParse ==
    /\ pc = "validate"
    /\ parsed' = parseCitation(citation)
    /\ IF LookupWanted(parsed')
       THEN pc' = "document" /\ validation' = validation
       ELSE pc' = "returned" /\ validation' = Some(InvalidResult(parsed'))
    /\ UNCHANGED <<db, doc, lookups>>
    /\ UNCHANGED serviceVars
    /\ UNCHANGED <<num, kanji, arabic, src, citation, format, formatted, reparsed>>

\* the document lookup returns a row; without article the result follows
DocumentFound ==
    /\ pc = "document"
    /\ \E d \in {x \in db.documents : DocumentMatches(x, searchTerm(parsed))} :
          /\ doc' = Some(d)
          /\ IF TruthyStr(parsed.article)
             THEN pc' = "provision" /\ validation' = validation
             ELSE /\ pc' = "returned"
                  /\ validation' = Some(FoundResult(parsed, d, FALSE, FALSE))
    /\ lookups' = Append(lookups, Lookup("document", "row"))
    /\ UNCHANGED db
    /\ UNCHANGED serviceVars
    /\ UNCHANGED <<num, kanji, arabic, src, citation, parsed, format, formatted,
                   reparsed>>

\* the document lookup returns undefined
DocumentNotFound ==
    /\ pc = "document"
    /\ \A x \in db.documents : ~DocumentMatches(x, searchTerm(parsed))
    /\ lookups' = Append(lookups, Lookup("document", "none"))
    /\ validation' = Some(NotFoundResult(parsed))
    /\ pc' = "returned"
    /\ UNCHANGED <<db, doc>>
    /\ UNCHANGED serviceVars
    /\ UNCHANGED <<num, kanji, arabic, src, citation, parsed, format, formatted,
                   reparsed>>

\* a lookup throws: nothing catches, validateCitation returns nothing
LookupFails(at, kind) ==
    /\ pc = at
    /\ lookups' = Append(lookups, Lookup(kind, "failed"))
    /\ pc' = "thrown"
    /\ UNCHANGED <<db, doc, validation>>
    /\ UNCHANGED serviceVars
    /\ UNCHANGED <<num, kanji, arabic, src, citation, parsed, format, formatted,
                   reparsed>>

\* the provision lookup returns a row or undefined, and the result follows
ProvisionLookup ==
    /\ pc = "provision"
    /\ LET found == \E row \in db.provisions :
                        ProvisionMatches(row, doc[1].id, parsed.article[1])
       IN  /\ lookups' = Append(lookups,
                            Lookup("provision", IF found THEN "row" ELSE "none"))
           /\ validation' = Some(FoundResult(parsed, doc[1], TRUE, found))
    /\ pc' = "returned"
    /\ UNCHANGED <<db, doc>>
    /\ UNCHANGED serviceVars
    /\ UNCHANGED <<num, kanji, arabic, src, citation, parsed, format, formatted,
                   reparsed>>

ValidateNext ==
    \/ ValidateParse
    \/ DocumentFound
    \/ DocumentNotFound
    \/ LookupFails("document", "document")
    \/ ProvisionLookup
    \/ LookupFails("provision", "provision")

ValidateSpec == ValidateInit /\ [][ValidateNext]_vars

---------------------------------------------------------------------------
(* Properties *)

\* parseCitation has returned
Parsed == pc \in {"format", "reparse", "done"}
\* formatCitation has returned
Formatted == pc \in {"reparse", "done"}

\* a non-empty string of the Arabic digits 0-9
IsDigitString(s) == s # <<>> /\ \A k \in 1..Len(s) : s[k] \in AsciiDigits

\* the five grammars in the order parseCitation tries them
Grammars ==
    <<[re |-> JAPANESE_CITATION, n |-> 2], [re |-> TRAILING_JAPANESE, n |-> 2],
      [re |-> ENGLISH_FULL, n |-> 6], [re |-> SHORT_CITATION, n |-> 3],
      [re |-> ID_BASED, n |-> 3]>>

GrammarMatch(k, text) == StrMatch(text, Grammars[k].re, Grammars[k].n)

\* what the k-th grammar extracts from its match
Extraction(k, text) ==
    LET m == GrammarMatch(k, text)
    IN  CASE k = 1 -> JapaneseBranch(m)
          [] k = 2 -> TrailingBranch(m)
          [] k = 3 -> EnglishFullBranch(m)
          [] k = 4 -> ShortBranch(m)
          [] k = 5 -> IdBranch(m)

\* the grammars that match the text
Matching(text) == {k \in 1..5 : GrammarMatch(k, text).found}

\* the first of the grammars ks, in the order they are tried
First(ks) == CHOOSE k \in ks : \A j \in ks : k <= j

\* whether the string s contains the string t
Contains(s, t) ==
    \E k \in 1..(Len(s) - Len(t) + 1) : SubSeq(s, k, k + Len(t) - 1) = t

\* the value a numeral of the source was written for, as a decimal string
Decimal(o) == IF o = undefined THEN undefined ELSE Some(String(o[1].v))

\* C1: for every n in 1..9999, converting n to a Kanji numeral and the
\* numeral back to a number gives n again.
C1_NumeralRoundTrip ==
    (pc = "done" /\ num \in 1..9999) => arabic = num

\* C1 witness: 2003 went to ni-sen-san (no hundreds, no tens) and came back.
C1_Witness ==
    pc = "done" /\ num = 2003 /\ kanji = <<"ni", "sen", "san">> /\ arabic = 2003

\* C2 (as claimed): in every citation parsed as valid, each of article,
\* paragraph and item that is populated is a non-empty string of Arabic
\* digits.
C2_FieldsAreDigitStrings ==
    (Parsed /\ parsed.valid) =>
        /\ parsed.article # undefined => IsDigitString(parsed.article[1])
        /\ parsed.paragraph # undefined => IsDigitString(parsed.paragraph[1])
        /\ parsed.item # undefined => IsDigitString(parsed.item[1])

\* C3 (as claimed): a leading native citation "dai A jou [dai P kou]
\* [dai I gou] name" parses as valid with article, paragraph and item the
\* decimal strings of the values written in their own wrappers (absent when
\* the block is absent) and the name as title.
C3_NativeFieldsFromOwnWrapper ==
    (Parsed /\ src.kind = "leading" /\ src.sep = <<" ">>) =>
        /\ parsed.valid
        /\ parsed.article = Some(String(src.A.v))
        /\ parsed.paragraph = Decimal(src.P)
        /\ parsed.item = Decimal(src.I)
        /\ parsed.title = Some(src.name)

\* C4: the result of parseCitation is the extraction of the first grammar,
\* in the order leading native, trailing native, English full, English
\* short, identifier-based, that matches the trimmed input, whatever later
\* grammars match as well; the same holds when the formatted text is parsed.
C4_FirstGrammarWins ==
    /\ pc = "format" =>
          \A ks \in {Matching(Trim(citation))} :
              ks # {} => parsed = Extraction(First(ks), Trim(citation))
    /\ pc = "done" =>
          \A ks \in {Matching(Trim(formatted))} :
              ks # {} => reparsed = Extraction(First(ks), Trim(formatted))

\* C4 witness: an input that two grammars read differently was parsed as
\* the earlier one reads it.
C4_Witness ==
    /\ pc = "format"
    /\ \E ks \in {Matching(Trim(citation))} :
          /\ Cardinality(ks) > 1
          /\ \E k \in ks \ {First(ks)} :
                Extraction(k, Trim(citation))
                    # Extraction(First(ks), Trim(citation))
          /\ parsed = Extraction(First(ks), Trim(citation))

\* C5: parseCitation returns valid=false exactly when none of the five
\* grammars matches the trimmed input; then the type is 'unknown', the error
\* is a non-empty string that contains the trimmed input, and no other field
\* is populated; when valid=true the error is not populated.
C5_InvalidExactlyWhenNoGrammar ==
    pc = "format" =>
        /\ parsed.valid = (Matching(Trim(citation)) # {})
        /\ ~parsed.valid =>
              /\ parsed.type = "unknown"
              /\ parsed.error # undefined
              /\ parsed.error[1] # <<>>
              /\ Contains(parsed.error[1], Trim(citation))
              /\ \A f \in {"title", "title_en", "law_number", "act_number",
                           "year", "article", "paragraph", "item"} :
                    parsed[f] = undefined
        /\ parsed.valid => parsed.error = undefined

\* C5 witness: a text padded with white space that no grammar reads was
\* rejected.
C5_Witness ==
    /\ pc = "format"
    /\ ~parsed.valid
    /\ Trim(citation) # <<>>
    /\ Trim(citation) # citation

\* C6 (as claimed): for a valid parsed citation and each of the styles full,
\* short and japanese, parsing the formatted text is valid and gives the
\* same article, paragraph and item (and, for full, the same act_number and
\* year).
C6_ParseFormatRoundTrip ==
    (pc = "done" /\ parsed.valid /\ format \in {"full", "short", "japanese"}) =>
        /\ reparsed.valid
        /\ reparsed.article = parsed.article
        /\ reparsed.paragraph = parsed.paragraph
        /\ reparsed.item = parsed.item
        /\ format = "full" =>
              /\ reparsed.act_number = parsed.act_number
              /\ reparsed.year = parsed.year

\* C7: for n in 1..9999 and a plain law name, the citation "dai K jou name",
\* K the Kanji numeral of n, parsed and formatted as 'japanese' is the input
\* again, and the input with n in Arabic digits gives the same output.
C7_NativeRoundTrip ==
    (Formatted /\ format = "japanese" /\ src.kind = "leading"
       /\ src.P = undefined /\ src.I = undefined /\ src.sep = <<" ">>
       /\ src.A.v \in 1..9999 /\ src.name \in PlainNames) =>
        LET native ==
                <<DAI>> \o arabicToKanji(src.A.v) \o <<JOU, " ">> \o src.name
        IN  /\ formatted = native
            /\ src.A.s = arabicToKanji(src.A.v) => formatted = citation

\* C7 witness: article 9999 written in Arabic digits came out in Kanji.
C7_Witness ==
    /\ pc = "done"
    /\ format = "japanese"
    /\ citation = <<DAI, "9", "9", "9", "9", JOU, " ", "min", "hou">>
    /\ formatted = <<DAI, "kyuu", "sen", "kyuu", "hyaku", "kyuu", "juu",
                     "kyuu", JOU, " ", "min", "hou">>

\* C8 (as claimed): when the identifier-based grammar matches, the result
\* is valid with the article and the paragraph given and with act_number
\* and year the integers written in the identifier.
C8_IdentifierDecomposed ==
    (Parsed /\ src.kind = "id") =>
        /\ parsed.valid
        /\ parsed.article = Some(src.n)
        /\ parsed.paragraph = src.p
        /\ parsed.act_number = Some(DigitsValue(src.k, 0))
        /\ parsed.year = Some(DigitsValue(src.y, 0))

\* what the English full form is claimed to return for the pieces written
EnglishAsWritten ==
    /\ parsed.valid
    /\ parsed.article = Some(src.n)
    /\ parsed.paragraph = src.p
    /\ parsed.item = src.i
    /\ parsed.title_en = Some(src.name)
    /\ parsed.act_number =
          (IF src.act = undefined THEN undefined
           ELSE Some(DigitsValue(src.act[1].k, 0)))
    /\ parsed.year =
          (IF src.act = undefined THEN undefined
           ELSE Some(DigitsValue(src.act[1].y, 0)))

\* C9 (as claimed): every input "Article n[, Paragraph p][, Item i],
\* name[ (Act No. k of year)]", keywords in any letter case, parses as valid
\* with these pieces.
C9_EnglishFullAsWritten ==
    (Parsed /\ src.kind = "english") => EnglishAsWritten

\* C9 (amended): the same, for the inputs of that form that the trailing
\* native grammar, which is tried first, does not match.
C9_EnglishFullUnlessNative ==
    (Parsed /\ src.kind = "english"
       /\ ~GrammarMatch(2, Trim(citation)).found) => EnglishAsWritten

\* C9 witness: upper-case keywords with paragraph, item and the act
\* information with act number 0 were read as written.
C9_Witness ==
    /\ pc = "format"
    /\ src.kind = "english"
    /\ src.kw = <<"A", "R", "T", "I", "C", "L", "E">>
    /\ src.p # undefined /\ src.i # undefined
    /\ src.act # undefined /\ src.act[1].k = <<"0">>
    /\ parsed.act_number = Some(0)
    /\ parsed.title_en = Some(src.name)

\* C10: a reference block and a plain law name parse to the same citation
\* whether written "block name" or "name block".
C10_LeadingEqualsTrailing ==
    (Parsed /\ src.kind = "leading" /\ src.sep = <<" ">>
       /\ src.name \in PlainNames) =>
        parsed = parseCitation(Render([src EXCEPT !.kind = "trailing"]))

\* C10 witness: a block with paragraph and item before the name was parsed.
C10_Witness ==
    /\ pc = "format"
    /\ src.kind = "leading"
    /\ src.sep = <<" ">>
    /\ src.P # undefined /\ src.I # undefined
    /\ parsed.valid
    /\ parsed.title = Some(src.name)
    /\ parsed.paragraph = Decimal(src.P)

---------------------------------------------------------------------------
(* Properties of the numeral converter *)

\* the base-10 number the digit characters of s write
RECURSIVE PositionalReading(_)
PositionalReading(s) ==
    IF s = <<>> THEN 0
    ELSE 10 * PositionalReading(SubSeq(s, 1, Len(s) - 1))
           + KANJI_DIGITS(s[Len(s)])

\* the coefficient of the multiplier at position i: the digit immediately
\* before it, or 1 if no digit precedes it
Coefficient(s, i) ==
    IF i > 1 /\ s[i - 1] \in KanjiDigitChars
    THEN KANJI_DIGITS(s[i - 1]) ELSE 1

\* the sum of coefficient x multiplier over the multipliers among s[1..i]
RECURSIVE AdditiveReading(_, _)
AdditiveReading(s, i) ==
    IF i = 0 THEN 0
    ELSE AdditiveReading(s, i - 1)
           + (IF s[i] \in KanjiMultiplierChars
              THEN Coefficient(s, i) * KANJI_MULTIPLIERS(s[i]) ELSE 0)

\* the trailing digit of s, if it ends in one
TrailingDigit(s) ==
    IF s[Len(s)] \in KanjiDigitChars THEN KANJI_DIGITS(s[Len(s)]) ELSE 0

\* the reference evaluator of a string of digit and multiplier characters
ReferenceValue(s) ==
    IF s = <<>> THEN 0
    ELSE IF \A i \in 1..Len(s) : s[i] \in KanjiDigitChars
    THEN (IF Len(s) = 1 THEN KANJI_DIGITS(s[1]) ELSE PositionalReading(s))
    ELSE AdditiveReading(s, Len(s)) + TrailingDigit(s)

\* a digit of value 0 stands immediately before a multiplier
ZeroCoefficient(s) ==
    \E i \in 2..Len(s) :
        /\ s[i] \in KanjiMultiplierChars
        /\ s[i - 1] \in KanjiDigitChars
        /\ KANJI_DIGITS(s[i - 1]) = 0

\* C11 (as claimed): on every string of digit and multiplier characters
\* kanjiToArabic returns what the reference evaluator returns: 0 for the
\* empty string, the value of a single digit, the positional number of two
\* or more digits, and otherwise the sum of coefficient x multiplier plus
\* the trailing digit.
C11_AgreesWithReference ==
    pc = "done" => arabic = ReferenceValue(kanji)

\* kanjiToArabic and the reference evaluator differ only where a digit of
\* value 0 stands immediately before a multiplier
AgreesUnlessZeroCoefficient ==
    (pc = "done" /\ ~ZeroCoefficient(kanji)) => arabic = ReferenceValue(kanji)

\* one place of a numeral: nothing for coefficient 0, the bare multiplier
\* for coefficient 1, else the coefficient's digit and the multiplier
NumeralPlace(c, m) ==
    IF c = 0 THEN <<>>
    ELSE IF c = 1 THEN <<m>>
    ELSE ARABIC_TO_KANJI_DIGITS(c) \o <<m>>

\* the numeral specified for n in -1..9999
ReferenceNumeral(n) ==
    IF n < 0 THEN <<>>
    ELSE IF n <= 9 THEN ARABIC_TO_KANJI_DIGITS(n)
    ELSE NumeralPlace(n \div 1000, "sen")
           \o NumeralPlace((n \div 100) % 10, "hyaku")
           \o NumeralPlace((n \div 10) % 10, "juu")
           \o (IF n % 10 = 0 THEN <<>> ELSE ARABIC_TO_KANJI_DIGITS(n % 10))

\* C12: arabicToKanji returns the empty string for a negative number, the
\* digit character for 0..9, and for 10..9999 the non-zero places from
\* thousands to tens, each its multiplier preceded by the coefficient only
\* when it is 2..9, then the non-zero ones digit; such an output contains
\* no zero character and no digit one directly before a multiplier.
C12_NumeralAsSpecified ==
    (pc \in {"toArabic", "done"} /\ num <= 9999) =>
        /\ kanji = ReferenceNumeral(num)
        /\ num >= 10 =>
              /\ \A i \in 1..Len(kanji) : kanji[i] # "maru"
              /\ \A i \in 1..(Len(kanji) - 1) :
                    ~(kanji[i] = "ichi" /\ kanji[i + 1] \in KanjiMultiplierChars)

\* C12 witness: 1110 was written with three bare multipliers.
C12_Witness ==
    pc = "toArabic" /\ num = 1110 /\ kanji = <<"sen", "hyaku", "juu">>

\* C13: for a numeral s in multiplicative-additive form, c(s) =
\* arabicToKanji(kanjiToArabic(s)) is the canonical numeral of the value of
\* s, c(c(s)) = c(s), and c(s) = s when s is itself canonical.
C13_CanonicalIdempotent ==
    /\ pc = "recanon" => arabic = src.v
    /\ pc \in {"recanon", "done"} =>
          /\ kanji = ReferenceNumeral(src.v)
          /\ src.s = ReferenceNumeral(src.v) => kanji = src.s
    /\ pc = "done" => kanji = arabicToKanji(kanjiToArabic(src.s))

\* C13 witness: 1111 written with every coefficient came out with bare
\* multipliers, and stayed so when canonicalised again.
C13_Witness ==
    /\ pc = "done"
    /\ src.s = <<"ichi", "sen", "ichi", "hyaku", "ichi", "juu", "ichi">>
    /\ kanji = <<"sen", "hyaku", "juu", "ichi">>

---------------------------------------------------------------------------
(* Properties of the formatter *)

\* the string s contains the character c
HasChar(s, c) == \E k \in 1..Len(s) : s[k] = c

\* the pinpoint of the non-native styles as specified
ReferencePinpoint(p) ==
    p.article[1]
    \o (IF p.paragraph # undefined
        THEN <<"(">> \o p.paragraph[1] \o <<")">> ELSE <<>>)
    \o (IF p.item # undefined THEN <<"(">> \o p.item[1] \o <<")">> ELSE <<>>)

\* the name of the non-native styles as specified
ReferenceName(p) ==
    IF p.title_en # undefined THEN p.title_en[1]
    ELSE IF p.title # undefined THEN p.title[1] ELSE <<>>

\* the act information of the full style as specified
ReferenceActInfo(p) ==
    IF p.act_number # undefined /\ p.year # undefined
    THEN <<" ", "(", "A", "c", "t", " ", "N", "o", ".", " ">>
         \o NatToString(p.act_number[1]) \o <<" ", "o", "f", " ">>
         \o NatToString(p.year[1]) \o <<")">>
    ELSE <<>>

\* the citation can be formatted: it is valid and has an article
Formattable(p) == p.valid /\ p.article # undefined

\* C14: formatCitation returns the empty string, for every style value,
\* when the citation has valid=false or has no article; so it does for the
\* result of every parse that rejected its input.
C14_EmptyWhenUnformattable ==
    (Formatted /\ ~Formattable(parsed)) => formatted = <<>>

\* C14 witness: a citation with valid=false that has an article and a
\* title, and the result of a rejected parse, were formatted in a style
\* outside the type and as 'japanese'.
C14_Witness ==
    /\ pc = "reparse"
    /\ formatted = <<>>
    /\ \/ /\ src.kind = "record" /\ ~parsed.valid
          /\ parsed.article # undefined /\ parsed.title # undefined
          /\ format = "bluebook"
       \/ /\ src.kind = "raw" /\ ~parsed.valid /\ Trim(citation) # <<>>
          /\ format = "japanese"

\* C15 (as claimed): the full style ends in " (Act No. n of year)" exactly
\* when the citation has both act_number and year, whatever their values.
C15_ActInfoIffBothPresent ==
    (Formatted /\ Formattable(parsed) /\ format = "full") =>
        formatted =
            Trim(<<"A", "r", "t", "i", "c", "l", "e", " ">>
                 \o buildPinpoint(parsed, FALSE) \o <<",", " ">>
                 \o ReferenceName(parsed) \o ReferenceActInfo(parsed))

\* C16 (as claimed): a style value that is none of full, short, pinpoint,
\* japanese gives the string the full style gives.
C16_UnknownStyleAsFull ==
    (Formatted /\ Formattable(parsed)
       /\ format \notin {"full", "short", "pinpoint", "japanese"}) =>
        formatted = formatCitation(parsed, "full")

\* C17: with a name present, 'short' is "Art. <pinpoint>, <name>",
\* 'pinpoint' is "Art. <pinpoint>" and 'full' starts "Article <pinpoint>, ",
\* the pinpoint being the article, then the paragraph in parentheses if
\* present, then the item in parentheses if present, and the name title_en
\* if present and else title; 'japanese' has no parentheses.
C17_PinpointAndShortForms ==
    (Formatted /\ Formattable(parsed) /\ ReferenceName(parsed) # <<>>) =>
        LET art == <<"A", "r", "t", ".", " ">> \o ReferencePinpoint(parsed)
            article == <<"A", "r", "t", "i", "c", "l", "e", " ">>
                         \o ReferencePinpoint(parsed) \o <<",", " ">>
        IN  /\ format = "short" =>
                  formatted = art \o <<",", " ">> \o ReferenceName(parsed)
            /\ format = "pinpoint" => formatted = art
            /\ format = "full" =>
                  /\ Len(formatted) >= Len(article)
                  /\ SubSeq(formatted, 1, Len(article)) = article
            /\ format = "japanese" =>
                  ~HasChar(formatted, "(") /\ ~HasChar(formatted, ")")

\* C17 witness: a citation with an item and no paragraph, and both titles,
\* was formatted as 'short'.
C17_Witness ==
    /\ pc = "reparse"
    /\ format = "short"
    /\ parsed.valid
    /\ parsed.paragraph = undefined /\ parsed.item = Some(<<"2">>)
    /\ parsed.title # undefined /\ parsed.title_en # undefined
    /\ formatted = <<"A", "r", "t", ".", " ", "1", "7", "(", "2", ")", ",", " ",
                     "A", "P", "P", "I">>

---------------------------------------------------------------------------
(* Properties of the validator *)

\* validateCitation has returned a result for a document it found
ReturnedFound == pc = "returned" /\ doc # undefined

\* the provision lookup was made and returned a row
ProvisionRowReturned ==
    Len(lookups) = 2 /\ lookups[2] = Lookup("provision", "row")

C19_ProvisionExistsOnlyIfStored ==
    (ReturnedFound /\ validation[1].provision_exists) =>
        \E row \in db.provisions :
            /\ row.document_id = doc[1].id
            /\ \/ row.provision_ref = provisionRef(parsed.article[1])
               \/ row.section = Some(parsed.article[1])

\* the kinds of the lookups issued, in order
LookupKinds == [k \in 1..Len(lookups) |-> lookups[k].kind]

\* C20: no lookup is issued for a citation that does not parse; otherwise
\* one document lookup is issued, followed by one provision lookup exactly
\* if the document lookup returned a row; no lookup follows a failed one;
\* and validateCitation returns a result exactly if no lookup failed.
C20_LookupProtocol ==
    /\ LookupKinds \in {<<>>, <<"document">>, <<"document", "provision">>}
    /\ \A k \in 1..(Len(lookups) - 1) : lookups[k].outcome # "failed"
    /\ Len(lookups) = 2 => lookups[1].outcome = "row"
    /\ pc \in {"returned", "thrown"} =>
          /\ ~parsed.valid => lookups = <<>>
          /\ parsed.valid =>
                /\ Len(lookups) >= 1
                /\ Len(lookups) = 2 <=> lookups[1].outcome = "row"
    /\ pc = "thrown" <=>
          (lookups # <<>> /\ lookups[Len(lookups)].outcome = "failed")
    /\ validation # undefined <=> pc = "returned"

\* C20 witness: the document was found, the provision lookup failed, and
\* nothing was returned.
C20_Witness ==
    /\ pc = "thrown"
    /\ LookupKinds = <<"document", "provision">>
    /\ lookups[2].outcome = "failed"
    /\ validation = undefined

---------------------------------------------------------------------------
(* Further properties of the library *)

\* C24 (as claimed): formatArticleKanji wraps the Kanji numeral of n when
\* the input is a string of digits denoting n in 1..9999, and wraps the
\* input unchanged in every other case, a non-digit character anywhere in
\* the input included.
C24_WrapsNumeralOrRawInput ==
    pc = "done" =>
        formatted =
            <<DAI>>
            \o (IF IsDigitString(src.text)
                    /\ DigitsValue(src.text, 0) \in 1..9999
                THEN ReferenceNumeral(DigitsValue(src.text, 0))
                ELSE src.text)
            \o <<JOU>>

\* C27: a citation parsed as valid has a non-empty article and a non-empty
\* title or title_en; so the formatted string is non-empty, in every
\* style, exactly when the parse was valid.
C27_ValidHasArticleAndTitle ==
    /\ (Parsed /\ parsed.valid) =>
          /\ TruthyStr(parsed.article)
          /\ TruthyStr(parsed.title) \/ TruthyStr(parsed.title_en)
    /\ Formatted => (formatted # <<>> <=> parsed.valid)

\* C27 witness: an identifier-based citation was parsed and formatted in
\* the pinpoint style.
C27_Witness ==
    /\ pc = "reparse"
    /\ src.kind = "id"
    /\ format = "pinpoint"
    /\ parsed.valid
    /\ parsed.title_en = undefined /\ TruthyStr(parsed.title)
    /\ formatted # <<>>

\* what the full and the short grammar capture from the trimmed citation
FullMatch == GrammarMatch(3, Trim(citation))
ShortMatch == GrammarMatch(4, Trim(citation))

C29_ResultShape ==
    pc = "returned" =>
        LET r == validation[1]
        IN  /\ r.provision_exists => r.document_exists
            /\ (r.document_title # undefined) <=> r.document_exists
            /\ (r.status # undefined) <=> r.document_exists
            /\ ~r.document_exists =>
                  r.warnings =
                      <<IF parsed.valid
                        THEN DocumentNotFoundWarning(searchTerm(parsed))
                        ELSE parsed.error[1]>>

\* C29 witness: a citation that parsed named a document the database does
\* not hold.
C29_Witness ==
    /\ pc = "returned"
    /\ parsed.valid
    /\ ~validation[1].document_exists
    /\ Len(validation[1].warnings) = 1
    /\ db.documents # {}

---------------------------------------------------------------------------
(* Concurrent callers of the library.  The functions are synchronous, so   *)
(* calls interleave as wholes.  The state shared between calls is what the *)
(* module keeps outside the functions: the five grammar regex objects,     *)
(* whose lastIndex a match reads and writes when the regex is sticky.      *)

MaxCallers == 2         \* callers
MaxCalls == 2           \* calls made in one run

\* the y flag of the k-th grammar: none of the five literals carries it
StickyAlways(k) == TRUE
Sticky(k) == FALSE

\* trimmed.match(REGEX) for the k-th grammar with lastIndex li: a regex that
\* is not sticky matches from the start and leaves lastIndex alone; a sticky
\* one matches at li, where ^ fails unless li = 0, and then sets lastIndex
\* to the end of the match, or to 0 when there is none
RegExpExec(k, text, li) ==
    IF ~Sticky(k) THEN [m |-> GrammarMatch(k, text), lastIndex |-> li]
    ELSE IF li = 0 /\ GrammarMatch(k, text).found
         THEN [m |-> GrammarMatch(k, text), lastIndex |-> Len(text)]
         ELSE [m |-> [found |-> FALSE], lastIndex |-> 0]

\* parseCitation from the k-th grammar on, with the regex state li
RECURSIVE parseCitationFrom(_, _, _)
parseCitationFrom(k, trimmed, li) ==
    IF k > 5 THEN [ret |-> Unparseable(trimmed), lastIndex |-> li]
    ELSE LET e == RegExpExec(k, trimmed, li[k])
             after == [li EXCEPT ![k] = e.lastIndex]
         IN  IF e.m.found
             THEN [ret |-> Extraction(k, trimmed), lastIndex |-> after]
             ELSE parseCitationFrom(k + 1, trimmed, after)

\* the citations the callers parse
CallerCitations ==
    {<<DAI, "ichi", JOU, " ", "min", "hou">>,
     <<"min", "hou", " ", DAI, "ichi", JOU, DAI, "ni", KOU>>,
     <<"A", "r", "t", ".", " ", "1", "7", ",", " ", "A", "P", "P", "I">>,
     <<"a", "c", "t", "-", "5", "7", "-", "2", "0", "0", "3", ",", " ",
       "a", "r", "t", ".", " ", "1", "7">>,
     <<" ", "m", "i", "n", "p", "o">>}

\* the structures returned to some caller by parseCitation so far
Returned == {callers[i].ret : i \in {j \in 1..Len(callers) : callers[j].op = "parse"}}

\* the calls a caller can make now: operation and argument
Calls ==
    {[op |-> "parse", arg |-> t] : t \in CallerCitations}
    \cup {[op |-> "format", arg |-> [p |-> r, f |-> f]] :
             r \in Returned, f \in {"full", "japanese"}}
    \cup {[op |-> "toKanji", arg |-> n] : n \in {17, 110}}
    \cup {[op |-> "toArabic", arg |-> t] :
             t \in {<<"juu", "nana">>, <<"hyaku", "juu">>}}

\* what a call returns when it is executed alone
Alone(op, arg) ==
    CASE op = "parse" -> parseCitation(arg)
      [] op = "format" -> formatCitation(arg.p, arg.f)
      [] op = "toKanji" -> arabicToKanji(arg)
      [] op = "toArabic" -> kanjiToArabic(arg)

\* caller c makes one call; only parseCitation touches the regexes
Call(c) ==
    /\ pc = "idle"
    /\ Len(callers) < MaxCalls
    /\ \E call \in Calls :
          LET run == IF call.op = "parse"
                     THEN parseCitationFrom(1, Trim(call.arg), lastIndex)
                     ELSE [ret |-> Alone(call.op, call.arg),
                           lastIndex |-> lastIndex]
          IN  /\ callers' = Append(callers,
                     [caller |-> c, op |-> call.op, arg |-> call.arg,
                      ret |-> run.ret])
              /\ lastIndex' = run.lastIndex
    /\ UNCHANGED <<libraryVars, pool, retry, limiter, query, tool>>

CallersInit == IdleLibrary /\ IdleServices

CallersNext == \E c \in 1..MaxCallers : Call(c)

CallersSpec == CallersInit /\ [][CallersNext]_vars

\* C21: whatever calls were made before it and by whom, every call
\* returned what it returns when executed alone on the same argument, the
\* structures returned earlier are still what they were (a structure
\* handed to formatCitation included), and the state the calls share, the
\* lastIndex of the grammars, is never changed.
C21_CallsAreStateless ==
    /\ \A i \in 1..Len(callers) :
          callers[i].ret = Alone(callers[i].op, callers[i].arg)
    /\ lastIndex = <<0, 0, 0, 0, 0>>

\* C21 witness: one caller parsed a citation, then another caller parsed
\* the same citation.
C21_Witness ==
    /\ Len(callers) = 2
    /\ callers[1].op = "parse" /\ callers[2].op = "parse"
    /\ callers[1].caller # callers[2].caller
    /\ callers[1].arg = callers[2].arg
    /\ callers[1].ret.valid

---------------------------------------------------------------------------
(* ingest: the concurrency pool of main.  Laws are numbered 0..n-1 as in   *)
(* toIngest.  A task is started by the call of the async function and      *)
(* settles at some later turn of the event loop; its finally callback was  *)
(* registered before any Promise.race or Promise.all subscribed to it, so  *)
(* it runs first, and main resumes only when no callback is pending.       *)

CONCURRENCY == 3
MaxLaws == 5            \* toIngest holds 1..MaxLaws laws

\* the test that makes main wait, without the limit
AtCapacityNever(size) == FALSE
\* running.size >= CONCURRENCY
AtCapacity(size) == size >= CONCURRENCY

\* the tasks started and not yet settled
InFlight == {t \in DOMAIN pool.status : pool.status[t] = "started"}

PoolInit ==
    /\ IdleLibrary
    /\ lastIndex = <<0, 0, 0, 0, 0>> /\ callers = <<>>
    /\ retry = <<>> /\ limiter = <<>> /\ query = <<>> /\ tool = <<>>
    /\ \E n \in 1..MaxLaws :
          pool = [n |-> n, i |-> 0, at |-> "loop", running |-> {},
                  status |-> [t \in 0..(n - 1) |-> "new"],
                  starts |-> [t \in 0..(n - 1) |-> 0],
                  callbacks |-> {}, awaited |-> {}]

\* main after the loop body of index i: the next iteration, or Promise.all
\* over the tasks that are in running at that moment
Advance(p) ==
    IF p.i + 1 < p.n THEN [p EXCEPT !.i = p.i + 1, !.at = "loop"]
    ELSE [p EXCEPT !.i = p.i + 1, !.at = "all", !.awaited = p.running]

\* one iteration of the loop: the stagger sleep when i > 0, the start of
\* the task, running.add, task.finally, and the test of running.size
Launch ==
    /\ pool.at = "loop"
    /\ pool.callbacks = {}
    /\ LET i == pool.i
           started == [pool EXCEPT !.status[i] = "started",
                                   !.starts[i] = pool.starts[i] + 1,
                                   !.running = pool.running \cup {i}]
       IN  pool' = IF AtCapacity(Cardinality(started.running))
                   THEN [started EXCEPT !.at = "race",
                                        !.awaited = started.running]
                   ELSE Advance(started)
    /\ UNCHANGED <<libraryVars, lastIndex, callers, retry, limiter, query, tool>>

\* the task of law t settles: ingestOneWithRetry returned
Settle(t) ==
    /\ pool.status[t] = "started"
    /\ pool' = [pool EXCEPT !.status[t] = "settled",
                            !.callbacks = pool.callbacks \cup {t}]
    /\ UNCHANGED <<libraryVars, lastIndex, callers, retry, limiter, query, tool>>

\* the finally callback of task t: running.delete(task)
RunFinally(t) ==
    /\ t \in pool.callbacks
    /\ pool' = [pool EXCEPT !.running = pool.running \ {t},
                            !.callbacks = pool.callbacks \ {t}]
    /\ UNCHANGED <<libraryVars, lastIndex, callers, retry, limiter, query, tool>>

\* await Promise.race(running) resumes: one of the awaited tasks settled
RaceDone ==
    /\ pool.at = "race"
    /\ pool.callbacks = {}
    /\ \E t \in pool.awaited : pool.status[t] = "settled"
    /\ pool' = Advance(pool)
    /\ UNCHANGED <<libraryVars, lastIndex, callers, retry, limiter, query, tool>>

\* await Promise.all(running) resumes and the summary is printed
AllDone ==
    /\ pool.at = "all"
    /\ pool.callbacks = {}
    /\ \A t \in pool.awaited : pool.status[t] = "settled"
    /\ pool' = [pool EXCEPT !.at = "summary"]
    /\ UNCHANGED <<libraryVars, lastIndex, callers, retry, limiter, query, tool>>

PoolNext ==
    \/ Launch
    \/ \E t \in DOMAIN pool.status : Settle(t)
    \/ \E t \in DOMAIN pool.status : RunFinally(t)
    \/ RaceDone
    \/ AllDone

PoolSpec == PoolInit /\ [][PoolNext]_vars

---------------------------------------------------------------------------
(* ingest: ingestOneWithRetry for one law.  An attempt is the awaited      *)
(* fetchLawData with the parse and the write of the seed file; it          *)
(* succeeds, throws, or never settles: https.get is called without a       *)
(* timeout and rateLimitedFetch follows redirects without a limit.         *)

MAX_RETRIES == 3
RETRY_BASE_MS == 5000

\* the messages of the errors an attempt throws
ErrorMessages ==
    {<<"R", "e", "d", "i", "r", "e", "c", "t">>,
     <<"H", "T", "T", "P", " ", "3", "0", "2">>,
     <<"H", "T", "T", "P", " ", "5", "0", "0">>}

\* errMsg.includes('301') || includes('302') || includes('sorry') ||
\* includes('Redirect')
RateLimited(errMsg) ==
    \/ Contains(errMsg, <<"3", "0", "1">>)
    \/ Contains(errMsg, <<"3", "0", "2">>)
    \/ Contains(errMsg, <<"s", "o", "r", "r", "y">>)
    \/ Contains(errMsg, <<"R", "e", "d", "i", "r", "e", "c", "t">>)

\* RETRY_BASE_MS * Math.pow(2, attempt)
Backoff(attempt) == RETRY_BASE_MS * 2^attempt

RetryInit ==
    /\ IdleLibrary
    /\ lastIndex = <<0, 0, 0, 0, 0>> /\ callers = <<>>
    /\ pool = <<>> /\ limiter = <<>> /\ query = <<>> /\ tool = <<>>
    /\ retry = [attempt |-> 0, at |-> "fetch", errors |-> <<>>,
                sleeps |-> <<>>, result |-> undefined]

\* the attempt succeeds: the seed file is written and ok is returned
AttemptSucceeds ==
    /\ retry.at = "fetch"
    /\ retry' = [retry EXCEPT !.at = "returned",
                              !.result = Some([ok |-> TRUE, error |-> undefined])]
    /\ UNCHANGED <<libraryVars, lastIndex, callers, pool, limiter, query, tool>>

\* the catch block for an attempt that threw errMsg
AttemptFails(errMsg) ==
    /\ retry.at = "fetch"
    /\ LET failed == [retry EXCEPT !.errors = Append(retry.errors, errMsg)]
           sleeping == [failed EXCEPT
                           !.at = "sleep",
                           !.sleeps = Append(retry.sleeps, Backoff(retry.attempt))]
           giveUp == [failed EXCEPT
                         !.at = "returned",
                         !.result = Some([ok |-> FALSE, error |-> Some(errMsg)])]
       IN  retry' =
               IF RateLimited(errMsg) /\ retry.attempt < MAX_RETRIES THEN sleeping
               ELSE IF retry.attempt = MAX_RETRIES THEN giveUp
               ELSE IF retry.attempt < MAX_RETRIES THEN sleeping
               ELSE giveUp
    /\ UNCHANGED <<libraryVars, lastIndex, callers, pool, limiter, query, tool>>

\* the attempt never settles: the connection stays silent, or every
\* response redirects again
AttemptHangs ==
    /\ retry.at = "fetch"
    /\ retry' = [retry EXCEPT !.at = "pending"]
    /\ UNCHANGED <<libraryVars, lastIndex, callers, pool, limiter, query, tool>>

\* the sleep is over: continue with the next attempt
Retry ==
    /\ retry.at = "sleep"
    /\ retry' = [retry EXCEPT !.at = "fetch", !.attempt = retry.attempt + 1]
    /\ UNCHANGED <<libraryVars, lastIndex, callers, pool, limiter, query, tool>>

RetryNext ==
    \/ AttemptSucceeds
    \/ \E errMsg \in ErrorMessages : AttemptFails(errMsg)
    \/ AttemptHangs
    \/ Retry

RetrySpec == RetryInit /\ [][RetryNext]_vars

\* timers fire and an attempt that settles is delivered
RetryFairSpec == RetrySpec /\ WF_vars(RetryNext)

\* at most MAX_RETRIES + 1 attempts, the waits 5 s, 10 s, 20 s before the
\* 2nd, 3rd and 4th, ok at the first success, and not ok with the last
\* error exactly when all four attempts failed
RetryBounded ==
    /\ retry.attempt <= MAX_RETRIES
    /\ Len(retry.errors) <= MAX_RETRIES + 1
    /\ retry.sleeps = SubSeq(<<5000, 10000, 20000>>, 1, Len(retry.sleeps))
    /\ Len(retry.sleeps) =
          IF retry.at = "sleep" THEN retry.attempt + 1 ELSE retry.attempt
    /\ retry.at = "returned" =>
          LET r == retry.result[1]
          IN  /\ r.ok <=> Len(retry.errors) = retry.attempt
              /\ ~r.ok <=> Len(retry.errors) = MAX_RETRIES + 1
              /\ ~r.ok => r.error = Some(retry.errors[MAX_RETRIES + 1])

\* C25 (as claimed): ingestOneWithRetry always returns, after at most four
\* attempts separated by waits of 5 s, 10 s and 20 s, with ok at the first
\* success and with the last error exactly when all four attempts failed.
C25_AlwaysTerminates ==
    /\ []RetryBounded
    /\ <>(retry.at = "returned")

\* what holds of the code: the function returns unless an attempt never
\* settles
ReturnsUnlessPending ==
    /\ []RetryBounded
    /\ <>(retry.at \in {"returned", "pending"})

---------------------------------------------------------------------------
(* fetcher: rateLimitedFetch called by the ingest tasks.  Time is          *)
(* Date.now() in milliseconds and advances in steps of TickMs; a timer     *)
(* fires at its due time or later.                                         *)

RATE_LIMIT_MS == 500
TickMs == 100           \* the clock advances in steps of TickMs
StartTime == 1000       \* Date.now() when the first call is made
MaxTime == 2000         \* the clock is observed up to MaxTime
MaxFetchers == 3        \* concurrent callers of rateLimitedFetch

LimiterInit ==
    /\ IdleLibrary
    /\ lastIndex = <<0, 0, 0, 0, 0>> /\ callers = <<>>
    /\ pool = <<>> /\ retry = <<>> /\ query = <<>> /\ tool = <<>>
    /\ limiter = [now |-> StartTime, lastRequestTime |-> 0,
                  calls |-> [c \in 1..MaxFetchers |-> [at |-> "idle", due |-> 0]],
                  starts |-> <<>>]

\* lastRequestTime = Date.now() and the request is issued by https.get
StartRequest(l, c) ==
    [l EXCEPT !.lastRequestTime = l.now,
              !.calls[c] = [at |-> "started", due |-> 0],
              !.starts = Append(l.starts, [caller |-> c, time |-> l.now])]

\* caller c calls rateLimitedFetch: it reads the clock and lastRequestTime,
\* and either sets the timer for the rest of the interval or starts at once
Request(c) ==
    /\ limiter.calls[c].at = "idle"
    /\ LET elapsed == limiter.now - limiter.lastRequestTime
       IN  limiter' =
               IF elapsed < RATE_LIMIT_MS
               THEN [limiter EXCEPT !.calls[c] =
                        [at |-> "waiting",
                         due |-> limiter.now + (RATE_LIMIT_MS - elapsed)]]
               ELSE StartRequest(limiter, c)
    /\ UNCHANGED <<libraryVars, lastIndex, callers, pool, retry, query, tool>>

\* the timer of caller c fires and the call continues after the await
Resume(c) ==
    /\ limiter.calls[c].at = "waiting"
    /\ limiter.now >= limiter.calls[c].due
    /\ limiter' = StartRequest(limiter, c)
    /\ UNCHANGED <<libraryVars, lastIndex, callers, pool, retry, query, tool>>

\* time passes
Tick ==
    /\ limiter.now < MaxTime
    /\ limiter' = [limiter EXCEPT !.now = limiter.now + TickMs]
    /\ UNCHANGED <<libraryVars, lastIndex, callers, pool, retry, query, tool>>

LimiterNext ==
    \/ \E c \in 1..MaxFetchers : Request(c)
    \/ \E c \in 1..MaxFetchers : Resume(c)
    \/ Tick

LimiterSpec == LimiterInit /\ [][LimiterNext]_vars

\* C30 (as claimed): any two requests started through rateLimitedFetch
\* begin at least RATE_LIMIT_MS apart, callers that wait on the limiter at
\* the same time included.
C30_RequestsSpaced ==
    \A i, j \in 1..Len(limiter.starts) :
        i < j =>
            limiter.starts[j].time - limiter.starts[i].time >= RATE_LIMIT_MS

---------------------------------------------------------------------------
(* get_provision.  The resolved statute has the provisions 1..n in the     *)
(* order of (order_index, id); provision k has provision_ref art-k and     *)
(* section k.                                                              *)

MAX_ALL_PROVISIONS == 200
MaxProvisions == 202    \* the statute holds 0..MaxProvisions provisions

\* the cap test with the limit itself counted as over the cap
OverCapInclusive(total) == total >= MAX_ALL_PROVISIONS
\* total > MAX_ALL_PROVISIONS
OverCap(total) == total > MAX_ALL_PROVISIONS

\* SELECT ... ORDER BY lp.order_index, lp.id LIMIT max
FirstRows(n, max) == [k \in 1..(IF n < max THEN n ELSE max) |-> k]

\* getProvision for a statute with n provisions
getProvision(n, input) ==
    LET given == IF input.provision_ref # undefined THEN input.provision_ref
                 ELSE input.article
        articleRef == IF TruthyStr(given) THEN parseArticleNumber(given[1])
                      ELSE <<>>
    IN  IF articleRef = <<>>
        THEN LET total == n
                 results == FirstRows(n, MAX_ALL_PROVISIONS)
             IN  IF OverCap(total)
                 THEN [shape |-> "truncated", provisions |-> results,
                       truncated |-> TRUE, total |-> total]
                 ELSE [shape |-> "list", provisions |-> results,
                       truncated |-> FALSE, total |-> 0]
        ELSE LET rows == {k \in 1..n :
                            \/ <<"a", "r", "t", "-">> \o String(k)
                                 = <<"a", "r", "t", "-">> \o articleRef
                            \/ String(k) = articleRef
                            \/ <<"a", "r", "t", "-">> \o String(k) = articleRef}
             IN  IF rows = {}
                 THEN [shape |-> "null", provisions |-> <<>>,
                       truncated |-> FALSE, total |-> 0]
                 ELSE [shape |-> "row", provisions |-> <<CHOOSE k \in rows : TRUE>>,
                       truncated |-> FALSE, total |-> 0]

\* what a caller passes as provision_ref and as article
ProvisionRefs == {undefined, Some(<<>>), Some(<<"2">>), Some(<<DAI, "ni", JOU>>)}

QueryInit ==
    /\ IdleLibrary
    /\ lastIndex = <<0, 0, 0, 0, 0>> /\ callers = <<>>
    /\ pool = <<>> /\ retry = <<>> /\ limiter = <<>> /\ tool = <<>>
    /\ \E n \in 0..MaxProvisions, ref \in ProvisionRefs, art \in ProvisionRefs :
          query = [at |-> "call", n |-> n,
                   input |-> [provision_ref |-> ref, article |-> art],
                   response |-> undefined]

\* one call of getProvision
Query ==
    /\ query.at = "call"
    /\ query' = [query EXCEPT
                     !.at = "returned",
                     !.response = Some(getProvision(query.n, query.input))]
    /\ UNCHANGED <<libraryVars, lastIndex, callers, pool, retry, limiter, tool>>

QueryNext == Query

QuerySpec == QueryInit /\ [][QueryNext]_vars

\* C23: called without article and provision_ref, getProvision returns at
\* most MAX_ALL_PROVISIONS provisions, the first in order; it returns them
\* as {provisions, truncated: true, total} with the true count exactly when
\* the statute has more than MAX_ALL_PROVISIONS provisions, and otherwise
\* returns the plain list of all provisions of the statute.
C23_AllProvisionsCapped ==
    (query.at = "returned"
       /\ query.input.provision_ref = undefined
       /\ query.input.article = undefined) =>
        LET r == query.response[1]
        IN  /\ Len(r.provisions) <= MAX_ALL_PROVISIONS
            /\ r.shape = "truncated" <=> query.n > MAX_ALL_PROVISIONS
            /\ r.shape = "truncated" =>
                  /\ r.truncated /\ r.total = query.n
                  /\ r.provisions = [k \in 1..MAX_ALL_PROVISIONS |-> k]
            /\ r.shape # "truncated" =>
                  /\ r.shape = "list"
                  /\ r.provisions = [k \in 1..query.n |-> k]

\* C23 witness: a statute with more provisions than the cap was queried
\* without article and provision_ref, and the truncated shape came back.
C23_Witness ==
    /\ query.at = "returned"
    /\ query.input.provision_ref = undefined /\ query.input.article = undefined
    /\ query.n = MAX_ALL_PROVISIONS + 1
    /\ query.response[1].shape = "truncated"
    /\ Len(query.response[1].provisions) = MAX_ALL_PROVISIONS

---------------------------------------------------------------------------
(* The CallTool request handler.  A text is the sequence of the pieces it  *)
(* is concatenated from.  What the tool implementation does with the       *)
(* request is part of the request here: it completes with a result, or     *)
(* throws an Error, or throws a value that is no Error.                    *)

\* the names of TOOLS, each with a case of the switch
TOOLS ==
    {"search_legislation", "get_provision", "list_sources", "validate_citation",
     "build_legal_stance", "format_citation", "check_currency", "get_eu_basis",
     "get_japanese_implementations", "search_eu_implementations",
     "get_provision_eu_basis", "validate_eu_compliance"}

\* buildTools(context): the names of the registered tools
buildTools(context) == IF context THEN TOOLS \cup {"about"} ELSE TOOLS

\* what the handler hands back: a response, or the exception it let through
Response(text, isError) == [threw |-> FALSE, text |-> text, isError |-> isError]
\* a catch block that lets the exception through
Rethrown(error) == [threw |-> TRUE, text |-> <<>>, isError |-> FALSE]

\* error instanceof Error ? error.message : String(error)
Message(error) == IF error.kind = "Error" THEN error.message ELSE error.value

\* the catch block of the handler
CatchBlock(error) == Response(<<"Error: ", Message(error)>>, TRUE)

\* the end of the try block: JSON.stringify(result, null, 2), which throws
\* a TypeError for a result it cannot serialise
Serialise(result) ==
    IF result.serialisable
    THEN Response(<<"JSON", result.value>>, FALSE)
    ELSE CatchBlock([kind |-> "Error",
                     message |-> "Converting circular structure to JSON"])

\* the awaited tool implementation and what follows it in the try block
Dispatch(run) ==
    IF run.kind = "completes" THEN Serialise(run.result) ELSE CatchBlock(run.error)

\* the handler for the request: the switch on the tool name
CallToolHandler(name, context, run) ==
    IF name \in TOOLS THEN Dispatch(run)
    ELSE IF name = "about"
    THEN IF context THEN Dispatch(run)
         ELSE Response(<<"About tool not configured.">>, TRUE)
    ELSE Response(<<"Error: Unknown tool \"", name, "\".">>, TRUE)

\* the names requested: the tools, about, and names of no tool
RequestedNames == TOOLS \cup {"about", "get_provisions", ""}

\* what the tool implementation does when it is called
Runs ==
    {[kind |-> "completes", result |-> [serialisable |-> ok, value |-> v],
      error |-> [kind |-> "none"]] :
        ok \in BOOLEAN, v \in {"results", "null"}}
    \cup {[kind |-> "throws", result |-> [serialisable |-> TRUE, value |-> "null"],
            error |-> e] :
             e \in {[kind |-> "Error", message |-> "document_id is required",
                     value |-> ""],
                    [kind |-> "Error", message |-> "no such table", value |-> ""],
                    [kind |-> "string", message |-> "", value |-> "boom"]}}

ToolInit ==
    /\ IdleLibrary
    /\ lastIndex = <<0, 0, 0, 0, 0>> /\ callers = <<>>
    /\ pool = <<>> /\ retry = <<>> /\ limiter = <<>> /\ query = <<>>
    /\ \E name \in RequestedNames, context \in BOOLEAN, run \in Runs :
          tool = [at |-> "request", name |-> name, context |-> context,
                  run |-> run, response |-> undefined]

\* one CallTool request is handled
CallTool ==
    /\ tool.at = "request"
    /\ tool' = [tool EXCEPT
                    !.at = "responded",
                    !.response = Some(CallToolHandler(tool.name, tool.context,
                                                      tool.run))]
    /\ UNCHANGED <<libraryVars, lastIndex, callers, pool, retry, limiter, query>>

ToolNext == CallTool

ToolSpec == ToolInit /\ [][ToolNext]_vars

\* whether the request reaches a tool implementation
Implemented == tool.name \in TOOLS \/ (tool.name = "about" /\ tool.context)

\* C26: the handler never throws; a name that is not registered gets an
\* error response, which names the tool unless it is about without a
\* configured context; an exception of the tool implementation becomes the
\* error response "Error: <message>"; and a response without isError is
\* returned only when the tool implementation completed.
C26_HandlerNeverThrows ==
    tool.at = "responded" =>
        LET r == tool.response[1]
        IN  /\ ~r.threw
            /\ tool.name \notin buildTools(tool.context) => r.isError
            /\ tool.name \notin TOOLS \cup {"about"} =>
                  r.text = <<"Error: Unknown tool \"", tool.name, "\".">>
            /\ (Implemented /\ tool.run.kind = "throws") =>
                  /\ r.isError
                  /\ r.text = <<"Error: ", IF tool.run.error.kind = "Error"
                                           THEN tool.run.error.message
                                           ELSE tool.run.error.value>>
            /\ ~r.isError => (Implemented /\ tool.run.kind = "completes")

\* C26 witness: a registered tool threw an Error and the handler answered
\* with the error response.
C26_Witness ==
    /\ tool.at = "responded"
    /\ tool.name = "get_provision"
    /\ tool.run.kind = "throws" /\ tool.run.error.kind = "Error"
    /\ tool.response[1].isError

====
